---------------------------- MODULE Spec2Model ----------------------------
(***************************************************************************)
(* Model of the russula coordination protocol of netbench_orchestrator:    *)
(* the phase chains of the server worker (netbench_server_worker.rs), the  *)
(* server coordinator (netbench_server_coord.rs), the legacy worker and    *)
(* orchestrator chains (netbench.rs) and the aggregate Russula<P>          *)
(* (russula.rs).                                                           *)
(*                                                                         *)
(* Bytes on the wire are modelled as sequences of atoms: an atom is one    *)
(* written token (or a piece of garbage).  A read returns everything that  *)
(* is pending, i.e. the concatenation of the pending writes, so a message  *)
(* of two atoms is the byte string of two tokens written back to back.     *)
(***************************************************************************)
EXTENDS Naturals, Sequences, FiniteSets, TLC

(***************************************************************************)
(* Bounds of the model.                                                    *)
(***************************************************************************)
NumPeers == 2        \* worker endpoints driven by the coordinator (closed system)
NumSessions == 3     \* sessions of the worker aggregate polled against an open peer
MaxDials == 2        \* connection attempts made to the addresses of a worker
NumCmds == 2         \* commands handed to wait_complete
MaxRuns == 3         \* iterations of a loop that drives one protocol to a target

(***************************************************************************)
(* Results.  Ok / Err(kind, dbg) of RussulaResult; a panic (unwrap on Err, *)
(* panic!) is the third outcome.  dbg is the byte string the error keeps.  *)
(***************************************************************************)
Ok == [tag |-> "Ok", kind |-> "none", dbg |-> <<>>]
Err(kind, dbg) == [tag |-> "Err", kind |-> kind, dbg |-> dbg]
Panic(kind, dbg) == [tag |-> "Panic", kind |-> kind, dbg |-> dbg]
NoResult == [tag |-> "none", kind |-> "none", dbg |-> <<>>]

(***************************************************************************)
(* What one read of the stream finds: nothing (the read would block) or    *)
(* the pending bytes.                                                      *)
(***************************************************************************)
Blocked == [blocked |-> TRUE, bytes |-> <<>>]
Data(b) == [blocked |-> FALSE, bytes |-> b]

\* A byte that makes the buffer invalid UTF-8 (e.g. 0xff).
BadByte == "\\xff"
IsUtf8(b) == \A i \in 1..Len(b) : b[i] # BadByte

\* format!("{:?}", std::str::from_utf8(bad_msg)): the text when the bytes are
\* UTF-8, the Utf8Error (which does not show the bytes) otherwise.
FromUtf8Debug(b) == IF IsUtf8(b) THEN b ELSE <<"Utf8Error">>

\* format!("{:?}", bad_msg) of a byte slice: the list of the bytes.
BytesDebug(b) == b

(***************************************************************************)
(* WorkerNetbenchServerState (netbench_server_worker.rs)                   *)
(***************************************************************************)
WorkerChain == <<"WaitPeerInit", "Ready", "Run", "Done">>

Worker_new == "WaitPeerInit"

Worker_as_bytes(s) ==
    CASE s = "WaitPeerInit" -> "server_wait_coord_init"
      [] s = "Ready" -> "server_ready"
      [] s = "Run" -> "server_wait_peer_done"
      [] s = "Done" -> "server_done"

Worker_from_bytes(b) ==
    CASE b = <<"server_wait_coord_init">> -> [res |-> Ok, state |-> "WaitPeerInit"]
      [] b = <<"server_ready">> -> [res |-> Ok, state |-> "Ready"]
      [] b = <<"server_wait_peer_done">> -> [res |-> Ok, state |-> "Run"]
      [] b = <<"server_done">> -> [res |-> Ok, state |-> "Done"]
      [] OTHER -> [res |-> Err("BadMsg", FromUtf8Debug(b)), state |-> "none"]

\* CoordNetbenchServerState::as_bytes, the token vocabulary of the worker's peer.
CoordNetbenchServerState_as_bytes(p) ==
    CASE p = "CheckPeer" -> "coord_check_peer"
      [] p = "Ready" -> "coord_ready"
      [] p = "RunPeer" -> "coord_run_peer"
      [] p = "KillPeer" -> "coord_wait_peer_done"
      [] p = "Done" -> "coord_done"

CoordNetbenchServerStatePhases == {"CheckPeer", "Ready", "RunPeer", "KillPeer", "Done"}

AwaitPeerState(token) == [kind |-> "AwaitPeerState", token |-> token]
Finished == [kind |-> "Finished", token |-> "none"]

\* Variant: a worker in Ready awaits the coordinator's first token again.
Worker_transition_step_await_check(s) ==
    CASE s = "WaitPeerInit" -> AwaitPeerState(CoordNetbenchServerState_as_bytes("CheckPeer"))
      [] s = "Ready" -> AwaitPeerState(CoordNetbenchServerState_as_bytes("CheckPeer"))
      [] s = "Run" -> AwaitPeerState(CoordNetbenchServerState_as_bytes("KillPeer"))
      [] s = "Done" -> Finished

Worker_transition_step(s) ==
    CASE s = "WaitPeerInit" -> AwaitPeerState(CoordNetbenchServerState_as_bytes("CheckPeer"))
      [] s = "Ready" -> AwaitPeerState(CoordNetbenchServerState_as_bytes("RunPeer"))
      [] s = "Run" -> AwaitPeerState(CoordNetbenchServerState_as_bytes("KillPeer"))
      [] s = "Done" -> Finished

Worker_next_state_backward(s) ==
    CASE s = "WaitPeerInit" -> "Ready"
      [] s = "Ready" -> "Run"
      [] s = "Run" -> "Done"
      [] s = "Done" -> "WaitPeerInit"

\* Variant: WaitPeerInit is followed by Run.
Worker_next_state_skip_ready(s) ==
    CASE s = "WaitPeerInit" -> "Run"
      [] s = "Ready" -> "Run"
      [] s = "Run" -> "Done"
      [] s = "Done" -> "Done"

Worker_next_state(s) ==
    CASE s = "WaitPeerInit" -> "Ready"
      [] s = "Ready" -> "Run"
      [] s = "Run" -> "Done"
      [] s = "Done" -> "Done"

\* transition_next: *self = self.next_state()
Worker_transition_next(s) == Worker_next_state(s)

\* Variant: a state equals every state it has reached or passed.
Worker_eq_at_or_past(s, other) ==
    CASE s = "WaitPeerInit" -> other \in {"WaitPeerInit"}
      [] s = "Ready" -> other \in {"WaitPeerInit", "Ready"}
      [] s = "Run" -> other \in {"WaitPeerInit", "Ready", "Run"}
      [] s = "Done" -> other \in {"WaitPeerInit", "Ready", "Run", "Done"}

\* eq: the match on self, with matches!(other, ..) in each arm.
Worker_eq(s, other) ==
    CASE s = "WaitPeerInit" -> other \in {"WaitPeerInit"}
      [] s = "Ready" -> other \in {"Ready"}
      [] s = "Run" -> other \in {"Run"}
      [] s = "Done" -> other \in {"Done"}

\* One step of a state: the phase after it, its result, the tokens it wrote and
\* whether it read the stream.
StepOut(state, res, sent, read) ==
    [state |-> state, res |-> res, sent |-> sent, read |-> read]

\* network_utils::recv_msg: one non-blocking read; no data is NetworkBlocked,
\* bytes that are no token of the peer are BadMsg.
Net_recv_msg(rx) ==
    IF rx.blocked THEN Err("NetworkBlocked", <<>>)
    ELSE IF \E p \in CoordNetbenchServerStatePhases :
                rx.bytes = <<CoordNetbenchServerState_as_bytes(p)>>
         THEN Ok
         ELSE Err("BadMsg", rx.bytes)

\* Variant: the new state is announced twice.
Await_after_recv_announces_twice(s, rx, r, step, next) ==
    IF r.tag = "Err" THEN StepOut(s, r, <<>>, TRUE)
    ELSE IF step.kind = "AwaitPeerState" /\ rx.bytes = <<step.token>>
         THEN StepOut(next, Ok, <<Worker_as_bytes(next), Worker_as_bytes(next)>>, TRUE)
         ELSE StepOut(s, Ok, <<>>, TRUE)

\* StateApi::await_peer_msg: receive once; on the awaited token move to the next
\* state and announce it to the peer.
Await_after_recv(s, rx, r, step, next) ==
    IF r.tag = "Err" THEN StepOut(s, r, <<>>, TRUE)
    ELSE IF step.kind = "AwaitPeerState" /\ rx.bytes = <<step.token>>
         THEN StepOut(next, Ok, <<Worker_as_bytes(next)>>, TRUE)
         ELSE StepOut(s, Ok, <<>>, TRUE)

Worker_await_peer_msg(s, rx) ==
    Await_after_recv(s, rx, Net_recv_msg(rx), Worker_transition_step(s),
                     Worker_transition_next(s))

\* The Ready arm of run: NetworkBlocked is printed and dropped, any other
\* result is returned with `?`.
Worker_run_ready(res) ==
    IF res.res.tag = "Err" /\ res.res.kind = "NetworkBlocked"
    THEN StepOut(res.state, Ok, res.sent, TRUE)
    ELSE res

Worker_run(s, rx) ==
    CASE s = "WaitPeerInit" -> Worker_await_peer_msg(s, rx)
      [] s = "Ready" -> Worker_run_ready(Worker_await_peer_msg(s, rx))
      [] s = "Run" -> StepOut(Worker_transition_next(s), Ok, <<>>, FALSE)
      [] s = "Done" -> StepOut(Worker_transition_next(s), Ok, <<>>, FALSE)

\* poll_state: at most one run, then Ready iff the state is the target; steps
\* is the number of calls of run it made.
PollOut(state, res, poll, sent, read, steps) ==
    [state |-> state, res |-> res, poll |-> poll, sent |-> sent, read |-> read,
     steps |-> steps]

\* The rest of poll_state after run returned r: `?` on its result, then the
\* comparison of the state with the target.
Poll_after_run(r, target) ==
    IF r.res.tag # "Ok"
    THEN PollOut(r.state, r.res, "none", r.sent, r.read, 1)
    ELSE PollOut(r.state, Ok, IF r.state = target THEN "Ready" ELSE "Pending",
                 r.sent, r.read, 1)

\* Variant: poll_state runs the state even when it is at the target.
Worker_poll_state_always_runs(s, target, rx) ==
    Poll_after_run(Worker_run(s, rx), target)

Worker_poll_state(s, target, rx) ==
    IF s # target
    THEN Poll_after_run(Worker_run(s, rx), target)
    ELSE PollOut(s, Ok, "Ready", <<>>, FALSE, 0)

\* A protocol being driven to a target: its state, the result of the call
\* (NoResult while it has not returned), the tokens written, the states after
\* each run, the number of reads made.
NoDrive == [state |-> "none", res |-> NoResult, sent |-> <<>>, trace |-> <<>>, reads |-> 0]

\* run_till_state: while the state is not the target, run and return an error
\* with `?`; Ok(()) after the loop.  rxs[k] is what the k-th read finds; the
\* loop is followed for fuel iterations.
RECURSIVE Worker_run_till_state(_, _, _, _)
Worker_run_till_state(d, target, rxs, fuel) ==
    IF Worker_eq(d.state, target) THEN [d EXCEPT !.res = Ok]
    ELSE IF fuel = 0 THEN d
    ELSE LET out == Worker_run(d.state, rxs[d.reads + 1])
             after == [state |-> out.state, res |-> NoResult,
                       sent |-> d.sent \o out.sent,
                       trace |-> Append(d.trace, out.state),
                       reads |-> d.reads + (IF out.read THEN 1 ELSE 0)]
         IN  IF out.res.tag # "Ok" THEN [after EXCEPT !.res = out.res]
             ELSE Worker_run_till_state(after, target, rxs, fuel - 1)

\* A caller's loop around poll_state: call it until it returns Poll::Ready;
\* an error ends the loop.  The loop is followed for fuel calls.
RECURSIVE Worker_poll_state_loop(_, _, _, _)
Worker_poll_state_loop(d, target, rxs, fuel) ==
    IF fuel = 0 THEN d
    ELSE LET p == Worker_poll_state(d.state, target, rxs[d.reads + 1])
             after == [state |-> p.state, res |-> NoResult,
                       sent |-> d.sent \o p.sent,
                       trace |-> IF p.steps = 1 THEN Append(d.trace, p.state) ELSE d.trace,
                       reads |-> d.reads + (IF p.read THEN 1 ELSE 0)]
         IN  IF p.res.tag # "Ok" THEN [after EXCEPT !.res = p.res]
             ELSE IF p.poll = "Ready" THEN [after EXCEPT !.res = Ok]
             ELSE Worker_poll_state_loop(after, target, rxs, fuel - 1)

\* Protocol::poll_next: poll toward the state that follows the current one.
Worker_poll_next(s, rx) == Worker_poll_state(s, Worker_next_state(s), rx)

(***************************************************************************)
(* NetbenchCoordServerState (netbench_server_coord.rs)                     *)
(***************************************************************************)
CoordChain == <<"CoordCheckPeer", "CoordReady", "CoordWaitPeerDone", "CoordDone">>

Coord_new == "CoordCheckPeer"

\* Variant: the wait-for-done phase has the token of the worker's Run phase.
Coord_as_bytes_shared(s) ==
    CASE s = "CoordCheckPeer" -> "coord_check_peer"
      [] s = "CoordReady" -> "coord_ready"
      [] s = "CoordWaitPeerDone" -> "server_wait_peer_done"
      [] s = "CoordDone" -> "coord_done"

Coord_as_bytes(s) ==
    CASE s = "CoordCheckPeer" -> "coord_check_peer"
      [] s = "CoordReady" -> "coord_ready"
      [] s = "CoordWaitPeerDone" -> "coord_wait_peer_done"
      [] s = "CoordDone" -> "coord_done"

Coord_from_bytes(b) ==
    CASE b = <<"coord_ready">> -> [res |-> Ok, state |-> "CoordReady"]
      [] b = <<"coord_wait_peer_done">> -> [res |-> Ok, state |-> "CoordWaitPeerDone"]
      [] b = <<"coord_done">> -> [res |-> Ok, state |-> "CoordDone"]
      [] OTHER -> [res |-> Err("BadMsg", FromUtf8Debug(b)), state |-> "none"]

PeerDriven(token) == [peer_driven |-> TRUE, token |-> token]
NoPeerMsg == [peer_driven |-> FALSE, token |-> "none"]

\* NetbenchWorkerServerState::ServerReady / ServerDone are the worker's Ready and
\* Done states.
\* Variant: CheckPeer waits for the worker's Done token.
Coord_expect_peer_msg_done(s) ==
    CASE s = "CoordCheckPeer" -> PeerDriven(Worker_as_bytes("Done"))
      [] s = "CoordReady" -> NoPeerMsg
      [] s = "CoordWaitPeerDone" -> PeerDriven(Worker_as_bytes("Done"))
      [] s = "CoordDone" -> NoPeerMsg

Coord_expect_peer_msg(s) ==
    CASE s = "CoordCheckPeer" -> PeerDriven(Worker_as_bytes("Ready"))
      [] s = "CoordReady" -> NoPeerMsg
      [] s = "CoordWaitPeerDone" -> PeerDriven(Worker_as_bytes("Done"))
      [] s = "CoordDone" -> NoPeerMsg

\* Variant: the chain wraps around after its last phase.
Coord_next_wrap(s) ==
    CASE s = "CoordCheckPeer" -> "CoordReady"
      [] s = "CoordReady" -> "CoordWaitPeerDone"
      [] s = "CoordWaitPeerDone" -> "CoordDone"
      [] s = "CoordDone" -> "CoordCheckPeer"

Coord_next(s) ==
    CASE s = "CoordCheckPeer" -> "CoordReady"
      [] s = "CoordReady" -> "CoordWaitPeerDone"
      [] s = "CoordWaitPeerDone" -> "CoordDone"
      [] s = "CoordDone" -> "CoordDone"

Coord_eq(s, other) ==
    CASE s = "CoordCheckPeer" -> other \in {"CoordCheckPeer"}
      [] s = "CoordReady" -> other \in {"CoordReady"}
      [] s = "CoordWaitPeerDone" -> other \in {"CoordWaitPeerDone"}
      [] s = "CoordDone" -> other \in {"CoordDone"}

\* Variant: a matching message is applied twice.
Coord_process_msg_twice(s, msg) ==
    LET e == Coord_expect_peer_msg(s)
    IN  IF e.peer_driven /\ <<e.token>> = msg THEN Coord_next(Coord_next(s)) ELSE s

Coord_process_msg(s, msg) ==
    LET e == Coord_expect_peer_msg(s)
    IN  IF e.peer_driven /\ <<e.token>> = msg THEN Coord_next(s) ELSE s

\* recv_msg: wait until readable, read once; the bytes must decode as a worker
\* state; a read that would block panics.
Coord_recv_msg(rx) ==
    IF rx.blocked THEN Panic("WouldBlock", <<>>)
    ELSE Worker_from_bytes(rx.bytes).res

\* NetbenchCoordServerProtocol::recv_msg: the same read as the state's
\* recv_msg; the state is not touched.
NetbenchCoordServerProtocol_recv_msg(s, rx) ==
    StepOut(s, Coord_recv_msg(rx), <<>>, TRUE)

\* run: CoordCheckPeer writes its token, receives (unwrap) and processes the
\* message; every other state calls next().
\* The CoordCheckPeer arm of run after the write: unwrap what recv_msg
\* returned (r), then process_msg.
Coord_run_check_peer(s, rx, r) ==
    IF r.tag = "Ok"
    THEN StepOut(Coord_process_msg(s, rx.bytes), Ok, <<Coord_as_bytes(s)>>, TRUE)
    ELSE StepOut(s, Panic(r.kind, r.dbg), <<Coord_as_bytes(s)>>, TRUE)

\* Variant: the CoordReady arm of run does nothing.
Coord_run_ready_stays(s, rx) ==
    CASE s = "CoordCheckPeer" -> Coord_run_check_peer(s, rx, Coord_recv_msg(rx))
      [] s = "CoordReady" -> StepOut(s, Ok, <<>>, FALSE)
      [] s = "CoordWaitPeerDone" -> StepOut(Coord_next(s), Ok, <<>>, FALSE)
      [] s = "CoordDone" -> StepOut(Coord_next(s), Ok, <<>>, FALSE)

Coord_run(s, rx) ==
    CASE s = "CoordCheckPeer" -> Coord_run_check_peer(s, rx, Coord_recv_msg(rx))
      [] s = "CoordReady" -> StepOut(Coord_next(s), Ok, <<>>, FALSE)
      [] s = "CoordWaitPeerDone" -> StepOut(Coord_next(s), Ok, <<>>, FALSE)
      [] s = "CoordDone" -> StepOut(Coord_next(s), Ok, <<>>, FALSE)

\* poll_state / poll_next of the coordinator protocol, as for the worker.
Coord_poll_state(s, target, rx) ==
    IF s # target
    THEN Poll_after_run(Coord_run(s, rx), target)
    ELSE PollOut(s, Ok, "Ready", <<>>, FALSE, 0)

Coord_poll_next(s, rx) == Coord_poll_state(s, Coord_next(s), rx)

(***************************************************************************)
(* NetbenchWorkerState and NetbenchOrchState (netbench.rs)                 *)
(***************************************************************************)
NetbenchWorkerChain == <<"Ready", "WaitPeerDone", "Done">>

NetbenchWorkerState_new == "Ready"

NetbenchWorkerState_as_bytes(s) ==
    CASE s = "Ready" -> "ready"
      [] s = "WaitPeerDone" -> "wait_peer_done"
      [] s = "Done" -> "done"

NetbenchWorkerState_from_bytes(b) ==
    CASE b = <<"ready">> -> [res |-> Ok, state |-> "Ready"]
      [] b = <<"wait_peer_done">> -> [res |-> Ok, state |-> "WaitPeerDone"]
      [] b = <<"done">> -> [res |-> Ok, state |-> "Done"]
      [] OTHER -> [res |-> Err("BadMsg", BytesDebug(b)), state |-> "none"]

NetbenchWorkerState_next_transition_msg(s) ==
    CASE s = "Ready" -> NoPeerMsg
      [] s = "WaitPeerDone" -> PeerDriven("wait_peer_done_next")
      [] s = "Done" -> NoPeerMsg

\* next(&mut self) -> Self returns the successor and assigns nothing.
NetbenchWorkerState_next(s) ==
    CASE s = "Ready" -> [self |-> s, ret |-> "WaitPeerDone"]
      [] s = "WaitPeerDone" -> [self |-> s, ret |-> "Done"]
      [] s = "Done" -> [self |-> s, ret |-> "Done"]

\* process_msg calls self.next() and drops what it returns.
NetbenchWorkerState_process_msg(s, msg) ==
    LET e == NetbenchWorkerState_next_transition_msg(s)
    IN  IF e.peer_driven /\ <<e.token>> = msg
        THEN NetbenchWorkerState_next(s).self
        ELSE s

\* recv_msg: decode the bytes read, then return self.state.
NetbenchWorkerProtocol_recv_msg(s, rx) ==
    IF rx.blocked THEN StepOut(s, Panic("WouldBlock", <<>>), <<>>, TRUE)
    ELSE StepOut(s, NetbenchWorkerState_from_bytes(rx.bytes).res, <<>>, TRUE)

NetbenchOrchChain == <<"Ready", "WaitPeerDone", "Done">>

NetbenchOrchState_new == "Ready"

NetbenchOrchState_as_bytes(s) ==
    CASE s = "Ready" -> "ready"
      [] s = "WaitPeerDone" -> "wait_peer_done"
      [] s = "Done" -> "done"

NetbenchOrchState_from_bytes(b) ==
    CASE b = <<"ready">> -> [res |-> Ok, state |-> "Ready"]
      [] b = <<"wait_peer_done">> -> [res |-> Ok, state |-> "WaitPeerDone"]
      [] b = <<"done">> -> [res |-> Ok, state |-> "Done"]
      [] OTHER -> [res |-> Err("BadMsg", BytesDebug(b)), state |-> "none"]

NetbenchOrchState_next_transition_msg(s) ==
    CASE s = "Ready" -> NoPeerMsg
      [] s = "WaitPeerDone" -> PeerDriven("wait_peer_done_next")
      [] s = "Done" -> NoPeerMsg

NetbenchOrchState_next(s) ==
    CASE s = "Ready" -> [self |-> s, ret |-> "WaitPeerDone"]
      [] s = "WaitPeerDone" -> [self |-> s, ret |-> "Done"]
      [] s = "Done" -> [self |-> s, ret |-> "Done"]

NetbenchOrchState_process_msg(s, msg) ==
    LET e == NetbenchOrchState_next_transition_msg(s)
    IN  IF e.peer_driven /\ <<e.token>> = msg
        THEN NetbenchOrchState_next(s).self
        ELSE s

NetbenchOrchProtocol_recv_msg(s, rx) ==
    IF rx.blocked THEN StepOut(s, Panic("WouldBlock", <<>>), <<>>, TRUE)
    ELSE StepOut(s, NetbenchOrchState_from_bytes(rx.bytes).res, <<>>, TRUE)

(***************************************************************************)
(* send_msg, the same in NetbenchCoordServerProtocol, in the coordinator's *)
(* state and in the legacy protocols: wait until writable, one try_write   *)
(* of the token, unwrap, Ok(()).                                           *)
(***************************************************************************)
\* What try_write(token) returns: Ok(n) with n bytes written, or an io::Error.
TryWriteOk(token, n) == [token |-> token, tag |-> "Ok", n |-> n, kind |-> "none"]
TryWriteErr(token, kind) == [token |-> token, tag |-> "Err", n |-> 0, kind |-> kind]
NoWrite == [token |-> "", tag |-> "none", n |-> 0, kind |-> "none"]

WriteOutcomes(token) ==
    {TryWriteOk(token, n) : n \in {1, Len(token) - 1, Len(token)}}
        \cup {TryWriteErr(token, "WouldBlock"), TryWriteErr(token, "BrokenPipe")}

\* The number of bytes is dropped by unwrap(); an io::Error panics there.
Protocol_send_msg(w) ==
    IF w.tag = "Ok" THEN Ok ELSE Panic(w.kind, <<>>)

(***************************************************************************)
(* The four roles, by name.                                                *)
(***************************************************************************)
Roles == {"Worker", "Coord", "NetbenchWorker", "NetbenchOrch"}

Chain(role) ==
    CASE role = "Worker" -> WorkerChain
      [] role = "Coord" -> CoordChain
      [] role = "NetbenchWorker" -> NetbenchWorkerChain
      [] role = "NetbenchOrch" -> NetbenchOrchChain

Phases(role) == {Chain(role)[i] : i \in 1..Len(Chain(role))}

\* Position of a phase in its role's chain.
Pos(role, s) == CHOOSE i \in 1..Len(Chain(role)) : Chain(role)[i] = s

Terminal(role) == Chain(role)[Len(Chain(role))]

(***************************************************************************)
(* Protocol dispatch for the two roles that Russula<P> drives.             *)
(***************************************************************************)
Protocol_run(role, s, rx) ==
    CASE role = "Worker" -> Worker_run(s, rx)
      [] role = "Coord" -> Coord_run(s, rx)

Protocol_poll_next(role, s, rx) ==
    CASE role = "Worker" -> Worker_poll_next(s, rx)
      [] role = "Coord" -> Coord_poll_next(s, rx)

\* The target of run_till_ready.
ReadyPhase(role) ==
    CASE role = "Worker" -> "Ready"
      [] role = "Coord" -> "CoordReady"

Protocol_new(role) ==
    CASE role = "Worker" -> Worker_new
      [] role = "Coord" -> Coord_new
      [] role = "NetbenchWorker" -> NetbenchWorkerState_new
      [] role = "NetbenchOrch" -> NetbenchOrchState_new

(***************************************************************************)
(* Russula::poll_next (russula.rs): poll the peers in order, unwrap each   *)
(* result, return Pending at the first peer that is pending.  states, rxs  *)
(* are indexed by the position in peer_list; rxs[i] is what the read of    *)
(* peer i finds if that peer reads.                                        *)
(***************************************************************************)
AggOut(states, poll, res, polled, sent, read, failed) ==
    [states |-> states, poll |-> poll, res |-> res, polled |-> polled,
     sent |-> sent, read |-> read, failed |-> failed]

\* Variant: the result of a peer's poll is not unwrapped; a peer whose poll
\* failed is passed over.
Russula_poll_loop_drops_errors(states, p) ==
    LET n == Len(states)
        stops == {i \in 1..n : p[i].res.tag = "Ok" /\ p[i].poll # "Ready"}
        stop == IF stops = {} THEN n + 1
                ELSE CHOOSE i \in stops : \A j \in stops : i <= j
        polled == {i \in 1..n : i <= stop}
    IN  AggOut([i \in 1..n |-> IF i \in polled THEN p[i].state ELSE states[i]],
               IF stop > n THEN "Ready" ELSE "Pending",
               Ok,
               polled,
               [i \in 1..n |-> IF i \in polled THEN p[i].sent ELSE <<>>],
               {i \in polled : p[i].read},
               {i \in polled : p[i].res.tag # "Ok"})

\* Variant: the peers share one protocol value; the state the first peer
\* reached is the state of all of them.
Russula_poll_loop_shared_protocol(states, p) ==
    LET n == Len(states)
        stops == {i \in 1..n : p[i].res.tag # "Ok" \/ p[i].poll # "Ready"}
        stop == IF stops = {} THEN n + 1
                ELSE CHOOSE i \in stops : \A j \in stops : i <= j
        polled == {i \in 1..n : i <= stop}
    IN  AggOut([i \in 1..n |-> p[1].state],
               IF stop > n THEN "Ready"
               ELSE IF p[stop].res.tag # "Ok" THEN "none" ELSE "Pending",
               IF stop <= n /\ p[stop].res.tag # "Ok"
               THEN Panic(p[stop].res.kind, p[stop].res.dbg) ELSE Ok,
               polled,
               [i \in 1..n |-> IF i \in polled THEN p[i].sent ELSE <<>>],
               {i \in polled : p[i].read},
               {i \in polled : p[i].res.tag # "Ok"})

\* p[i] is what the poll of peer i returns if the loop reaches it.
Russula_poll_loop(states, p) ==
    LET n == Len(states)
        \* the peers at which the loop would stop: an Err (unwrap) or Pending
        stops == {i \in 1..n : p[i].res.tag # "Ok" \/ p[i].poll # "Ready"}
        stop == IF stops = {} THEN n + 1
                ELSE CHOOSE i \in stops : \A j \in stops : i <= j
        polled == {i \in 1..n : i <= stop}
    IN  AggOut([i \in 1..n |-> IF i \in polled THEN p[i].state ELSE states[i]],
               IF stop > n THEN "Ready"
               ELSE IF p[stop].res.tag # "Ok" THEN "none" ELSE "Pending",
               IF stop <= n /\ p[stop].res.tag # "Ok"
               THEN Panic(p[stop].res.kind, p[stop].res.dbg) ELSE Ok,
               polled,
               [i \in 1..n |-> IF i \in polled THEN p[i].sent ELSE <<>>],
               {i \in polled : p[i].read},
               {i \in polled : p[i].res.tag # "Ok"})

Russula_poll_next(role, states, rxs) ==
    Russula_poll_loop(states,
        [i \in 1..Len(states) |-> Protocol_poll_next(role, states[i], rxs[i])])

Protocol_eq(role, s, other) ==
    CASE role = "Worker" -> Worker_eq(s, other)
      [] role = "Coord" -> Coord_eq(s, other)

\* Variant: check_self_state is satisfied by one peer in the given state.
Russula_check_self_state_any(role, states, s) ==
    \E i \in 1..Len(states) : Protocol_eq(role, s, states[i])

\* Russula::check_self_state: matches starts true and is and-ed with
\* state.eq(peer.protocol.state()) for every peer of peer_list; it reads the
\* states only.
Russula_check_self_state(role, states, s) ==
    \A i \in 1..Len(states) : Protocol_eq(role, s, states[i])

\* Russula::transition_step: the transition_step of every peer's state, in the
\* order of peer_list.
Russula_transition_step(states) ==
    [i \in 1..Len(states) |-> Worker_transition_step(states[i])]

\* What a query of the aggregate returned: the call, the state it was given,
\* the bool of check_self_state, the Vec of transition_step.
NoBuiltQuery ==
    [called |-> FALSE, first |-> 0, poll |-> "none", res |-> NoResult,
     polled |-> {}, check |-> {}]

NoQuery == [op |-> "none", state |-> "none", matches |-> FALSE, steps |-> <<>>]

(***************************************************************************)
(* State.  One of eight systems runs, chosen by mode:                      *)
(*   "fn"     one protocol state of one role, stepped with any input;      *)
(*   "agg"    one Russula aggregate whose peers may send anything;         *)
(*   "closed" a coordinator aggregate connected to NumPeers workers;       *)
(*   "build"  RussulaBuilder::build over at most NumSessions addresses;    *)
(*   "delete_sg"      one call of delete_security_group;                   *)
(*   "wait_complete"  one call of wait_complete over NumCmds commands;     *)
(*   "drive"  one worker protocol driven to a target state in both ways.   *)
(*   "wait_phase"  one wait loop of the orchestrator on its coordinator.   *)
(***************************************************************************)
VARIABLES
    mode,
    \* fn: role and state of the instance, the state before the last call, the
    \* call, what it read, its result, and the state or token it returned
    frole, fphase, fprev, fop, frx, fres, fret, fsent, ftarget, fpoll, fsteps,
    \* fn: what try_write returned in the last send_msg
    fwrite,
    \* agg: role, states of peer_list, states before the last call, the control
    \* position of the caller, the Poll and the result of the last poll_next,
    \* what the reads found, the peers that were polled, the peers whose step or
    \* poll has returned an error so far, the tokens the last call wrote to each
    \* peer, what the last query (check_self_state, transition_step) returned
    arole, astate, aprev, apc, apoll, ares, arx, apolled, afailed, asent, aret,
    \* closed: coordinator and worker states, the two directions of each stream,
    \* the coordinator's control position and last Poll, each worker's control
    \* position and last result, the byte strings each side has read so far
    cstate, wstate, c2w, w2c, cpc, cpoll, wmode, wres, wpoll, crecv, wrecv,
    \* build: role of the protocol given to the builder, the position of the next
    \* address, the peers connected so far, the result of build (NoResult while
    \* it runs), the number of connection attempts made for each address, the
    \* addresses as the caller collected them, the builder's peer_list, the
    \* addresses on which connect was called, in the order of the calls; for
    \* each address the state of the worker's listener, the inbound
    \* connections waiting in its queue, the streams the session holds; the
    \* addresses that peers have dialled, in the order of the dials
    brole, bidx, bpeers, bres, battempts, baddr, bpeer_list, btried,
    blistener, bbacklog, bconns, bdialed,
    \* build: what the calls made on the aggregate that build returned gave
    bquery,
    \* delete_sg: the results of the delete requests sent so far, in order, the
    \* local retries, the control position and the result of the call
    slog, sretries, spc, sret,
    \* wait_complete: the commands that have completed on their hosts, the
    \* control position of the call
    wcdone, wcpc,
    \* drive: the state the protocol starts in, the target, what its reads find
    \* (in the order of the reads), and where run_till_state and a loop of
    \* poll_state get with them
    dstart, dtarget, drxs, drun, dpoll,
    \* wait_phase: the phase the loop awaits ("none" before the call), the
    \* states of the sessions of the coordinator aggregate, the control position
    \* of the loop, what the last poll of the aggregate and the last poll of the
    \* worker command returned, the result of the call
    wptarget, wpstates, wppc, wppoll, wpcmd, wpres

fnVars == <<frole, fphase, fprev, fop, frx, fres, fret, fsent, ftarget, fpoll, fsteps,
           fwrite>>
aggVars == <<arole, astate, aprev, apc, apoll, ares, arx, apolled, afailed, asent, aret>>
buildVars == <<brole, bidx, bpeers, bres, battempts, baddr, bpeer_list, btried,
              blistener, bbacklog, bconns, bdialed, bquery>>
closedVars == <<cstate, wstate, c2w, w2c, cpc, cpoll, wmode, wres, wpoll, crecv, wrecv>>
\* The retries delete_security_group allows itself after the first request.
DeleteRetries == 10

Cmds == 1..NumCmds

orchVars == <<slog, sretries, spc, sret, wcdone, wcpc, dstart, dtarget, drxs, drun, dpoll,
              wptarget, wpstates, wppc, wppoll, wpcmd, wpres>>
vars == <<mode, fnVars, aggVars, closedVars, buildVars, orchVars>>

Peers == 1..NumPeers
Sessions == 1..NumSessions

(***************************************************************************)
(* Inputs.                                                                 *)
(***************************************************************************)
WorkerTokens == {Worker_as_bytes(WorkerChain[i]) : i \in 1..Len(WorkerChain)}
CoordTokens == {Coord_as_bytes(CoordChain[i]) : i \in 1..Len(CoordChain)}
PeerCoordTokens ==
    {CoordNetbenchServerState_as_bytes(p) : p \in CoordNetbenchServerStatePhases}
NetbenchTokens ==
    {NetbenchWorkerState_as_bytes(NetbenchWorkerChain[i]) : i \in 1..Len(NetbenchWorkerChain)}

Atoms == WorkerTokens \cup CoordTokens \cup PeerCoordTokens \cup NetbenchTokens
            \cup {"wait_peer_done_next", "bogus", BadByte}

\* Two writes read at once.
PairAtoms == {"coord_check_peer", "server_ready", "ready"}

ByteStrings ==
    {<<>>} \cup {<<a>> : a \in Atoms} \cup {<<a, b>> : a \in PairAtoms, b \in PairAtoms}

FnInputs == {Blocked} \cup {Data(b) : b \in ByteStrings}

\* What a peer of an aggregate of the role may have sent when the session reads.
AggInputs(role) ==
    CASE role = "Worker" ->
            {Blocked, Data(<<"coord_check_peer">>), Data(<<"coord_run_peer">>),
             Data(<<"bogus">>)}
      [] role = "Coord" ->
            {Blocked, Data(<<"server_ready">>), Data(<<"server_done">>),
             Data(<<"bogus">>)}

(***************************************************************************)
(* Addresses.  A SocketAddr is a number, ordered as SocketAddr's Ord.  The *)
(* caller's Vec may name the addresses in any order and name one twice.    *)
(***************************************************************************)
Addrs == 1..NumSessions
AddrLists == [1..NumSessions -> Addrs]

\* BTreeSet::from_iter: the set of the elements of the Vec.
BTreeSet_from_iter(v) == {v[i] : i \in 1..Len(v)}

\* BTreeSet::into_iter: the elements in ascending order.
RECURSIVE BTreeSet_into_iter(_)
BTreeSet_into_iter(S) ==
    IF S = {} THEN <<>>
    ELSE LET m == CHOOSE x \in S : \A y \in S : x <= y
         IN  <<m>> \o BTreeSet_into_iter(S \ {m})

\* Variant: the builder keeps the addresses in descending order.
RussulaBuilder_new_descending(addr) ==
    LET s == BTreeSet_into_iter(addr)
    IN  [i \in 1..Len(s) |-> s[Len(s) + 1 - i]]

\* RussulaBuilder::new: one (addr, protocol.clone()) entry per element of the
\* set, pushed in the order of its iterator.
RussulaBuilder_new(addr) == BTreeSet_into_iter(addr)

(***************************************************************************)
(* Init                                                                    *)
(***************************************************************************)
InitFnIdle ==
    /\ frole = "Worker" /\ fphase = Worker_new /\ fprev = Worker_new
    /\ fop = "none" /\ frx = Blocked /\ fres = NoResult /\ fret = "none"
    /\ fsent = <<>>
    /\ ftarget = "none" /\ fpoll = "none" /\ fsteps = 0 /\ fwrite = NoWrite

InitAggIdle ==
    /\ arole = "Worker"
    /\ astate = [i \in Sessions |-> Worker_new]
    /\ aprev = [i \in Sessions |-> Worker_new]
    /\ apc = [op |-> "idle", idx |-> 1]
    /\ apoll = "none" /\ ares = NoResult
    /\ arx = [i \in Sessions |-> Blocked]
    /\ apolled = {} /\ afailed = {}
    /\ asent = [i \in Sessions |-> <<>>] /\ aret = NoQuery

InitClosedIdle ==
    /\ cstate = [i \in Peers |-> Coord_new]
    /\ wstate = [i \in Peers |-> Worker_new]
    /\ c2w = [i \in Peers |-> <<>>]
    /\ w2c = [i \in Peers |-> <<>>]
    /\ cpc = [op |-> "idle", idx |-> 1, wait |-> FALSE]
    /\ cpoll = "none"
    /\ wmode = [i \in Peers |-> "idle"]
    /\ wres = [i \in Peers |-> NoResult]
    /\ wpoll = [i \in Peers |-> "none"]
    /\ crecv = [i \in Peers |-> {}]
    /\ wrecv = [i \in Peers |-> {}]

\* No address is bound, nothing is connected.
InitSockets ==
    /\ blistener = [a \in Sessions |-> "none"]
    /\ bbacklog = [a \in Sessions |-> 0]
    /\ bconns = [a \in Sessions |-> 0]
    /\ bdialed = <<>>

InitBuildIdle ==
    /\ brole = "Worker" /\ bidx = 1 /\ bpeers = <<>> /\ bres = NoResult
    /\ battempts = [a \in Sessions |-> 0]
    /\ baddr = <<>> /\ bpeer_list = <<>> /\ btried = <<>> /\ bquery = NoBuiltQuery
    /\ InitSockets

InitOrchIdle ==
    /\ slog = <<>> /\ sretries = 0 /\ spc = "start" /\ sret = NoResult
    /\ wcdone = {} /\ wcpc = "poll"
    /\ dstart = Worker_new /\ dtarget = "none" /\ drxs = <<>>
    /\ drun = NoDrive /\ dpoll = NoDrive
    /\ wptarget = "none" /\ wpstates = [i \in Peers |-> Coord_new]
    /\ wppc = "idle" /\ wppoll = "none" /\ wpcmd = "none" /\ wpres = NoResult

\* fn: any state of any role (the state enums are public values).
InitFn ==
    /\ mode = "fn"
    /\ frole \in Roles
    /\ fphase \in Phases(frole)
    /\ fprev = fphase
    /\ fop = "none" /\ frx = Blocked /\ fres = NoResult /\ fret = "none"
    /\ fsent = <<>>
    /\ ftarget = "none" /\ fpoll = "none" /\ fsteps = 0 /\ fwrite = NoWrite
    /\ InitAggIdle /\ InitClosedIdle /\ InitBuildIdle /\ InitOrchIdle

\* agg: RussulaBuilder::new clones the protocol, which is in its first state.
InitAgg ==
    /\ mode = "agg"
    /\ arole \in {"Worker", "Coord"}
    /\ astate = [i \in Sessions |-> Protocol_new(arole)]
    /\ aprev = astate
    /\ apc = [op |-> "idle", idx |-> 1]
    /\ apoll = "none" /\ ares = NoResult
    /\ arx = [i \in Sessions |-> Blocked]
    /\ apolled = {} /\ afailed = {}
    /\ asent = [i \in Sessions |-> <<>>] /\ aret = NoQuery
    /\ InitFnIdle /\ InitClosedIdle /\ InitBuildIdle /\ InitOrchIdle

InitClosed ==
    /\ mode = "closed"
    /\ InitFnIdle /\ InitAggIdle /\ InitClosedIdle /\ InitBuildIdle /\ InitOrchIdle

\* build: the caller collects the addresses of its hosts in a Vec, makes a
\* BTreeSet of them and gives it to RussulaBuilder::new; none is connected yet.
InitBuild ==
    /\ mode = "build"
    /\ brole \in {"Worker", "Coord"}
    /\ bidx = 1 /\ bpeers = <<>> /\ bres = NoResult
    /\ battempts = [a \in Sessions |-> 0]
    /\ baddr \in AddrLists \cup {<<>>}
    /\ bpeer_list = RussulaBuilder_new(BTreeSet_from_iter(baddr))
    /\ btried = <<>> /\ bquery = NoBuiltQuery
    /\ InitSockets
    /\ InitFnIdle /\ InitAggIdle /\ InitClosedIdle /\ InitOrchIdle

\* delete_sg, wait_complete: the call has been made and has sent nothing yet;
\* none of the commands given to wait_complete is known to have completed.
\* drive: no protocol has been driven yet.
\* wait_phase: the coordinator aggregate has been built (every session is in
\* its first state), the worker command has been sent, no loop is running.
InitOrch ==
    /\ mode \in {"delete_sg", "wait_complete", "drive", "wait_phase"}
    /\ InitFnIdle /\ InitAggIdle /\ InitClosedIdle /\ InitBuildIdle /\ InitOrchIdle

Init == InitFn \/ InitAgg \/ InitClosed \/ InitBuild \/ InitOrch

(***************************************************************************)
(* fn: calls on one state value.                                           *)
(***************************************************************************)
FnAlive == mode = "fn" /\ fres.tag # "Panic"

\* StateApi::run of the worker and the coordinator.
FnRun ==
    /\ FnAlive /\ frole \in {"Worker", "Coord"}
    /\ \E rx \in FnInputs :
       \E out \in {Protocol_run(frole, fphase, rx)} :
            /\ fphase' = out.state
            /\ fprev' = fphase
            /\ fop' = "run"
            /\ frx' = IF out.read THEN rx ELSE Blocked
            /\ fres' = out.res
            /\ fsent' = out.sent
            /\ ftarget' = "none" /\ fpoll' = "none" /\ fsteps' = 0 /\ fwrite' = NoWrite
            /\ fret' = "none"
    /\ UNCHANGED <<mode, frole, aggVars, closedVars, buildVars, orchVars>>

\* process_msg of the coordinator and of the legacy states, given a message.
FnProcessMsg ==
    /\ FnAlive /\ frole \in {"Coord", "NetbenchWorker", "NetbenchOrch"}
    /\ \E b \in ByteStrings :
        /\ fphase' = CASE frole = "Coord" -> Coord_process_msg(fphase, b)
                       [] frole = "NetbenchWorker" ->
                            NetbenchWorkerState_process_msg(fphase, b)
                       [] frole = "NetbenchOrch" ->
                            NetbenchOrchState_process_msg(fphase, b)
        /\ frx' = Data(b)
    /\ fprev' = fphase
    /\ fop' = "process_msg"
    /\ fres' = Ok
    /\ fret' = "none"
    /\ fsent' = <<>>
    /\ ftarget' = "none" /\ fpoll' = "none" /\ fsteps' = 0 /\ fwrite' = NoWrite
    /\ UNCHANGED <<mode, frole, aggVars, closedVars, buildVars, orchVars>>

\* next / transition_next.
FnNext ==
    /\ FnAlive
    /\ fphase' = CASE frole = "Worker" -> Worker_transition_next(fphase)
                   [] frole = "Coord" -> Coord_next(fphase)
                   [] frole = "NetbenchWorker" -> NetbenchWorkerState_next(fphase).self
                   [] frole = "NetbenchOrch" -> NetbenchOrchState_next(fphase).self
    /\ fret' = CASE frole = "Worker" -> Worker_next_state(fphase)
                 [] frole = "Coord" -> "none"
                 [] frole = "NetbenchWorker" -> NetbenchWorkerState_next(fphase).ret
                 [] frole = "NetbenchOrch" -> NetbenchOrchState_next(fphase).ret
    /\ fprev' = fphase
    /\ fop' = "next"
    /\ frx' = Blocked
    /\ fres' = Ok
    /\ fsent' = <<>>
    /\ ftarget' = "none" /\ fpoll' = "none" /\ fsteps' = 0 /\ fwrite' = NoWrite
    /\ UNCHANGED <<mode, frole, aggVars, closedVars, buildVars, orchVars>>

Role_as_bytes(role, s) ==
    CASE role = "Worker" -> Worker_as_bytes(s)
      [] role = "Coord" -> Coord_as_bytes(s)
      [] role = "NetbenchWorker" -> NetbenchWorkerState_as_bytes(s)
      [] role = "NetbenchOrch" -> NetbenchOrchState_as_bytes(s)

Role_from_bytes(role, b) ==
    CASE role = "Worker" -> Worker_from_bytes(b)
      [] role = "Coord" -> Coord_from_bytes(b)
      [] role = "NetbenchWorker" -> NetbenchWorkerState_from_bytes(b)
      [] role = "NetbenchOrch" -> NetbenchOrchState_from_bytes(b)

\* from_bytes(as_bytes(self)): frx is the token, fret the decoded state.
FnRoundTrip ==
    /\ FnAlive
    /\ LET b == <<Role_as_bytes(frole, fphase)>>
           d == Role_from_bytes(frole, b)
       IN  /\ frx' = Data(b)
           /\ fres' = d.res
           /\ fret' = d.state
    /\ fop' = "round_trip"
    /\ fprev' = fphase
    /\ fsent' = <<>>
    /\ ftarget' = "none" /\ fpoll' = "none" /\ fsteps' = 0 /\ fwrite' = NoWrite
    /\ UNCHANGED <<mode, frole, fphase, aggVars, closedVars, buildVars, orchVars>>

\* from_bytes of any bytes.
FnFromBytes ==
    /\ FnAlive
    /\ \E b \in ByteStrings :
        LET d == Role_from_bytes(frole, b)
        IN  /\ frx' = Data(b)
            /\ fres' = d.res
            /\ fret' = d.state
    /\ fop' = "from_bytes"
    /\ fprev' = fphase
    /\ fsent' = <<>>
    /\ ftarget' = "none" /\ fpoll' = "none" /\ fsteps' = 0 /\ fwrite' = NoWrite
    /\ UNCHANGED <<mode, frole, fphase, aggVars, closedVars, buildVars, orchVars>>

\* recv_msg of the coordinator protocol and of the legacy protocols.
FnRecvMsg ==
    /\ FnAlive /\ frole \in {"Coord", "NetbenchWorker", "NetbenchOrch"}
    /\ \E rx \in FnInputs :
        LET out == CASE frole = "Coord" ->
                            NetbenchCoordServerProtocol_recv_msg(fphase, rx)
                     [] frole = "NetbenchWorker" ->
                            NetbenchWorkerProtocol_recv_msg(fphase, rx)
                     [] frole = "NetbenchOrch" ->
                            NetbenchOrchProtocol_recv_msg(fphase, rx)
        IN  /\ fphase' = out.state
            /\ frx' = rx
            /\ fres' = out.res
            /\ fret' = IF out.res.tag = "Ok" THEN out.state ELSE "none"
    /\ fop' = "recv_msg"
    /\ fprev' = fphase
    /\ fsent' = <<>>
    /\ ftarget' = "none" /\ fpoll' = "none" /\ fsteps' = 0 /\ fwrite' = NoWrite
    /\ UNCHANGED <<mode, frole, aggVars, closedVars, buildVars, orchVars>>

\* send_msg of the coordinator protocol and of the legacy protocols with any
\* state as the message; fret is the state sent.  A token written in part is
\* garbage on the wire.
FnSendMsg ==
    /\ FnAlive /\ frole \in {"Coord", "NetbenchWorker", "NetbenchOrch"}
    /\ \E msg \in Phases(frole) :
       \E w \in WriteOutcomes(Role_as_bytes(frole, msg)) :
            /\ fwrite' = w
            /\ fres' = Protocol_send_msg(w)
            /\ fret' = msg
            /\ fsent' = IF w.tag # "Ok" THEN <<>>
                        ELSE IF w.n = Len(w.token) THEN <<w.token>> ELSE <<"bogus">>
    /\ fop' = "send_msg"
    /\ fprev' = fphase
    /\ frx' = Blocked
    /\ ftarget' = "none" /\ fpoll' = "none" /\ fsteps' = 0
    /\ UNCHANGED <<mode, frole, fphase, aggVars, closedVars, buildVars, orchVars>>

\* poll_state of the worker protocol toward any state.
FnPollState ==
    /\ FnAlive /\ frole = "Worker"
    /\ \E rx \in FnInputs, target \in Phases("Worker") :
       \E out \in {Worker_poll_state(fphase, target, rx)} :
            /\ fphase' = out.state
            /\ fprev' = fphase
            /\ fop' = "poll_state"
            /\ frx' = IF out.read THEN rx ELSE Blocked
            /\ fres' = out.res
            /\ fsent' = out.sent
            /\ fret' = "none"
            /\ ftarget' = target
            /\ fpoll' = out.poll
            /\ fsteps' = out.steps
            /\ fwrite' = NoWrite
    /\ UNCHANGED <<mode, frole, aggVars, closedVars, buildVars, orchVars>>

NextFn ==
    \/ FnRun \/ FnProcessMsg \/ FnNext \/ FnRoundTrip \/ FnFromBytes \/ FnRecvMsg
    \/ FnPollState \/ FnSendMsg

SpecFn == InitFn /\ [][NextFn]_vars

(***************************************************************************)
(* agg: Russula<P> over NumSessions peers that may send anything.          *)
(***************************************************************************)
\* Variant: run_till_ready looks at the current peer only.
FirstNotReady_current_only(role, states, i) ==
    IF i <= Len(states) /\ states[i] # ReadyPhase(role) THEN i ELSE Len(states) + 1

\* The first peer at or after i that run_till_ready still has to drive
\* (NumSessions + 1 when there is none).
FirstNotReady(role, states, i) ==
    LET rest == {k \in i..Len(states) : states[k] # ReadyPhase(role)}
    IN  IF rest = {} THEN Len(states) + 1
        ELSE CHOOSE k \in rest : \A j \in rest : k <= j

\* Russula::run_till_ready is called.
AggRunTillReady ==
    /\ mode = "agg" /\ apc.op = "idle"
    /\ \E i \in {FirstNotReady(arole, astate, 1)} :
           apc' = IF i > NumSessions THEN [op |-> "idle", idx |-> 1]
                  ELSE [op |-> "run_till_ready", idx |-> i]
    /\ aprev' = astate
    /\ apoll' = "none" /\ ares' = Ok
    /\ arx' = [i \in Sessions |-> Blocked]
    /\ apolled' = {}
    /\ asent' = [i \in Sessions |-> <<>>] /\ aret' = NoQuery
    /\ UNCHANGED <<mode, arole, astate, afailed, fnVars, closedVars, buildVars, orchVars>>

\* One iteration of the loop of run_till_state for the current peer; the result
\* is unwrapped by Russula::run_till_ready.
AggRunTillReadyStep ==
    /\ mode = "agg" /\ apc.op = "run_till_ready"
    /\ \E rx \in AggInputs(arole), i \in {apc.idx} :
       \E out \in {Protocol_run(arole, astate[i], rx)} :
       \E st \in {[astate EXCEPT ![i] = out.state]} :
       \E j \in {FirstNotReady(arole, st, i)} :
            /\ astate' = st
            /\ aprev' = astate
            /\ arx' = [k \in Sessions |-> IF k = i /\ out.read THEN rx ELSE Blocked]
            /\ apolled' = {i}
            /\ asent' = [k \in Sessions |-> IF k = i THEN out.sent ELSE <<>>]
            /\ afailed' = IF out.res.tag # "Ok" THEN afailed \cup {i} ELSE afailed
            /\ IF out.res.tag # "Ok"
               THEN /\ ares' = Panic(out.res.kind, out.res.dbg)
                    /\ apc' = [op |-> "dead", idx |-> i]
               ELSE /\ ares' = Ok
                    /\ apc' = IF j > NumSessions THEN [op |-> "idle", idx |-> 1]
                               ELSE [op |-> "run_till_ready", idx |-> j]
    /\ apoll' = "none" /\ aret' = NoQuery
    /\ UNCHANGED <<mode, arole, fnVars, closedVars, buildVars, orchVars>>

\* Russula::poll_next is called.
AggPollNext ==
    /\ mode = "agg" /\ apc.op = "idle"
    /\ \E rxs \in [Sessions -> AggInputs(arole)] :
       \E out \in {Russula_poll_next(arole, astate, rxs)} :
            /\ astate' = out.states
            /\ apoll' = out.poll
            /\ ares' = out.res
            /\ apolled' = out.polled
            /\ asent' = out.sent
            /\ afailed' = afailed \cup out.failed
            /\ arx' = [k \in Sessions |-> IF k \in out.read THEN rxs[k] ELSE Blocked]
            /\ apc' = IF out.res.tag # "Ok" THEN [op |-> "dead", idx |-> 1]
                       ELSE [op |-> "poll_next", idx |-> 1]
    /\ aprev' = astate /\ aret' = NoQuery
    /\ UNCHANGED <<mode, arole, fnVars, closedVars, buildVars, orchVars>>

\* Russula::check_self_state is called with any state of the role.
AggCheckSelfState ==
    /\ mode = "agg" /\ apc.op = "idle"
    /\ \E s \in Phases(arole) :
            aret' = [op |-> "check_self_state", state |-> s,
                     matches |-> Russula_check_self_state(arole, astate, s),
                     steps |-> <<>>]
    /\ apc' = [op |-> "check_self_state", idx |-> 1]
    /\ aprev' = astate
    /\ apoll' = "none" /\ ares' = Ok
    /\ arx' = [i \in Sessions |-> Blocked]
    /\ asent' = [i \in Sessions |-> <<>>]
    /\ apolled' = {}
    /\ UNCHANGED <<mode, arole, astate, afailed, fnVars, closedVars, buildVars, orchVars>>

\* Russula::transition_step is called on a worker aggregate.
AggTransitionStep ==
    /\ mode = "agg" /\ apc.op = "idle" /\ arole = "Worker"
    /\ aret' = [op |-> "transition_step", state |-> "none", matches |-> FALSE,
                steps |-> Russula_transition_step(astate)]
    /\ apc' = [op |-> "transition_step", idx |-> 1]
    /\ aprev' = astate
    /\ apoll' = "none" /\ ares' = Ok
    /\ arx' = [i \in Sessions |-> Blocked]
    /\ asent' = [i \in Sessions |-> <<>>]
    /\ apolled' = {}
    /\ UNCHANGED <<mode, arole, astate, afailed, fnVars, closedVars, buildVars, orchVars>>

\* The call has returned; the caller goes on.
AggReturn ==
    /\ mode = "agg" /\ apc.op \in {"poll_next", "check_self_state", "transition_step"}
    /\ apc' = [op |-> "idle", idx |-> 1]
    /\ UNCHANGED <<mode, arole, astate, aprev, apoll, ares, arx, apolled, afailed,
                   asent, aret, fnVars, closedVars, buildVars, orchVars>>

NextAgg ==
    \/ AggRunTillReady \/ AggRunTillReadyStep \/ AggPollNext \/ AggReturn
    \/ AggCheckSelfState \/ AggTransitionStep

SpecAgg == InitAgg /\ [][NextAgg]_vars

(***************************************************************************)
(* closed: the coordinator's Russula over NumPeers sessions, session i     *)
(* connected to worker i, whose own Russula has that one session.          *)
(* c2w[i] and w2c[i] hold the tokens written and not yet read.             *)
(***************************************************************************)
\* What the next read of a stream finds.
Pending(stream) == IF stream = <<>> THEN Blocked ELSE Data(stream)

\* The step of one coordinator session inside run_till_ready (run) or
\* poll_next (poll_next of the protocol).
CoordSessionStep(op, s, rx) ==
    IF op = "run_till_ready"
    THEN Poll_after_run(Coord_run(s, rx), ReadyPhase("Coord"))
    ELSE Coord_poll_next(s, rx)

\* Where the coordinator's caller is after session i made the step out and the
\* states are st: a panic ends it; run_till_ready goes to the next session that
\* is not Ready; poll_next returns Pending or goes to the next session.
CoordAfter(op, i, st, out) ==
    IF out.res.tag # "Ok" THEN [op |-> "dead", idx |-> i, wait |-> FALSE]
    ELSE IF op = "run_till_ready"
         THEN IF FirstNotReady("Coord", st, i) > NumPeers
              THEN [op |-> "idle", idx |-> 1, wait |-> FALSE]
              ELSE [op |-> op, idx |-> FirstNotReady("Coord", st, i), wait |-> FALSE]
         ELSE IF out.poll = "Pending" \/ i = NumPeers
              THEN [op |-> "idle", idx |-> 1, wait |-> FALSE]
              ELSE [op |-> op, idx |-> i + 1, wait |-> FALSE]

CoordPollAfter(op, i, out) ==
    IF op = "poll_next" /\ out.res.tag = "Ok"
    THEN IF out.poll = "Pending" THEN "Pending"
         ELSE IF i = NumPeers THEN "Ready" ELSE "none"
    ELSE "none"

\* Russula::run_till_ready is called on the coordinator.
CoordRunTillReady ==
    /\ mode = "closed" /\ cpc.op = "idle"
    /\ \E i \in {FirstNotReady("Coord", cstate, 1)} :
           cpc' = IF i > NumPeers THEN [op |-> "idle", idx |-> 1, wait |-> FALSE]
                  ELSE [op |-> "run_till_ready", idx |-> i, wait |-> FALSE]
    /\ cpoll' = "none"
    /\ UNCHANGED <<mode, cstate, wstate, c2w, w2c, wmode, wres, wpoll, crecv, wrecv,
                   fnVars, aggVars, buildVars, orchVars>>

\* Russula::poll_next is called on the coordinator.
CoordPollNext ==
    /\ mode = "closed" /\ cpc.op = "idle"
    /\ cpc' = [op |-> "poll_next", idx |-> 1, wait |-> FALSE]
    /\ cpoll' = "none"
    /\ UNCHANGED <<mode, cstate, wstate, c2w, w2c, wmode, wres, wpoll, crecv, wrecv,
                   fnVars, aggVars, buildVars, orchVars>>

\* The step of the current session when its state reads the stream: the token
\* is written, then recv_msg waits for the stream to be readable.
CoordSend ==
    /\ mode = "closed" /\ cpc.op \in {"run_till_ready", "poll_next"} /\ ~cpc.wait
    /\ \E i \in {cpc.idx} :
       \E out \in {CoordSessionStep(cpc.op, cstate[i], Blocked)} :
            /\ out.read
            /\ c2w' = [c2w EXCEPT ![i] = @ \o out.sent]
    /\ cpc' = [cpc EXCEPT !.wait = TRUE]
    /\ UNCHANGED <<mode, cstate, wstate, w2c, cpoll, wmode, wres, wpoll, crecv, wrecv,
                   fnVars, aggVars, buildVars, orchVars>>

\* The stream is readable: the pending bytes are read and the step completes.
CoordRecv ==
    /\ mode = "closed" /\ cpc.wait
    /\ \E i \in {cpc.idx} :
       /\ w2c[i] # <<>>
       /\ \E out \in {CoordSessionStep(cpc.op, cstate[i], Data(w2c[i]))} :
          \E st \in {[cstate EXCEPT ![i] = out.state]} :
            /\ cstate' = st
            /\ cpc' = CoordAfter(cpc.op, i, st, out)
            /\ cpoll' = CoordPollAfter(cpc.op, i, out)
            /\ crecv' = [crecv EXCEPT ![i] = @ \cup {w2c[i]}]
            /\ w2c' = [w2c EXCEPT ![i] = <<>>]
    /\ UNCHANGED <<mode, wstate, c2w, wmode, wres, wpoll, wrecv, fnVars, aggVars, buildVars, orchVars>>

\* readable() returned without data (a false readiness event): try_read_buf
\* would block and recv_msg panics.
CoordRecvWouldBlock ==
    /\ mode = "closed" /\ cpc.wait
    /\ \E i \in {cpc.idx} :
       /\ w2c[i] = <<>>
       /\ \E out \in {CoordSessionStep(cpc.op, cstate[i], Blocked)} :
            /\ cstate' = [cstate EXCEPT ![i] = out.state]
            /\ cpc' = CoordAfter(cpc.op, i, cstate', out)
    /\ cpoll' = "none"
    /\ UNCHANGED <<mode, wstate, c2w, w2c, wmode, wres, wpoll, crecv, wrecv,
                   fnVars, aggVars, buildVars, orchVars>>

\* The step of the current session when its state does no I/O.
CoordStep ==
    /\ mode = "closed" /\ cpc.op \in {"run_till_ready", "poll_next"} /\ ~cpc.wait
    /\ \E i \in {cpc.idx} :
       \E out \in {CoordSessionStep(cpc.op, cstate[i], Blocked)} :
       \E st \in {[cstate EXCEPT ![i] = out.state]} :
            /\ ~out.read
            /\ cstate' = st
            /\ cpc' = CoordAfter(cpc.op, i, st, out)
            /\ cpoll' = CoordPollAfter(cpc.op, i, out)
    /\ UNCHANGED <<mode, wstate, c2w, w2c, wmode, wres, wpoll, crecv, wrecv,
                   fnVars, aggVars, buildVars, orchVars>>

\* Russula::run_till_ready is called on worker i.
WorkerRunTillReady(i) ==
    /\ mode = "closed" /\ wmode[i] = "idle"
    /\ wmode' = [wmode EXCEPT ![i] =
                    IF wstate[i] = ReadyPhase("Worker") THEN "idle" ELSE "run_till_ready"]
    /\ wpoll' = [wpoll EXCEPT ![i] = "none"]
    /\ wres' = [wres EXCEPT ![i] = Ok]
    /\ UNCHANGED <<mode, cstate, wstate, c2w, w2c, cpc, cpoll, crecv, wrecv,
                   fnVars, aggVars, buildVars, orchVars>>

\* One iteration of the loop of run_till_state on worker i; Russula unwraps.
WorkerRunTillReadyStep(i) ==
    /\ mode = "closed" /\ wmode[i] = "run_till_ready"
    /\ \E rx \in {Pending(c2w[i])} :
       \E out \in {Worker_run(wstate[i], rx)} :
            /\ wstate' = [wstate EXCEPT ![i] = out.state]
            /\ c2w' = [c2w EXCEPT ![i] = IF out.read THEN <<>> ELSE @]
            /\ w2c' = [w2c EXCEPT ![i] = @ \o out.sent]
            /\ wrecv' = [wrecv EXCEPT ![i] =
                            IF out.read /\ ~rx.blocked THEN @ \cup {rx.bytes} ELSE @]
            /\ wres' = [wres EXCEPT ![i] =
                            IF out.res.tag # "Ok" THEN Panic(out.res.kind, out.res.dbg)
                            ELSE Ok]
            /\ wmode' = [wmode EXCEPT ![i] =
                            IF out.res.tag # "Ok" THEN "dead"
                            ELSE IF out.state = ReadyPhase("Worker") THEN "idle"
                            ELSE "run_till_ready"]
    /\ wpoll' = [wpoll EXCEPT ![i] = "none"]
    /\ UNCHANGED <<mode, cstate, cpc, cpoll, crecv, fnVars, aggVars, buildVars, orchVars>>

\* Russula::poll_next is called on worker i (a list of one peer).
WorkerPollNext(i) ==
    /\ mode = "closed" /\ wmode[i] = "idle"
    /\ \E rx \in {Pending(c2w[i])} :
       \E out \in {Russula_poll_next("Worker", <<wstate[i]>>, <<rx>>)} :
            /\ wstate' = [wstate EXCEPT ![i] = out.states[1]]
            /\ c2w' = [c2w EXCEPT ![i] = IF 1 \in out.read THEN <<>> ELSE @]
            /\ w2c' = [w2c EXCEPT ![i] = @ \o out.sent[1]]
            /\ wrecv' = [wrecv EXCEPT ![i] =
                            IF 1 \in out.read /\ ~rx.blocked THEN @ \cup {rx.bytes} ELSE @]
            /\ wres' = [wres EXCEPT ![i] = out.res]
            /\ wpoll' = [wpoll EXCEPT ![i] = out.poll]
            /\ wmode' = [wmode EXCEPT ![i] = IF out.res.tag # "Ok" THEN "dead" ELSE "idle"]
    /\ UNCHANGED <<mode, cstate, cpc, cpoll, crecv, fnVars, aggVars, buildVars, orchVars>>

NextClosed ==
    \/ CoordRunTillReady \/ CoordPollNext \/ CoordSend \/ CoordRecv
    \/ CoordRecvWouldBlock \/ CoordStep
    \/ \E i \in Peers : WorkerRunTillReady(i)
    \/ \E i \in Peers : WorkerRunTillReadyStep(i)
    \/ \E i \in Peers : WorkerPollNext(i)

SpecClosed == InitClosed /\ [][NextClosed]_vars

(***************************************************************************)
(* build: RussulaBuilder::build connects the addresses in the order of the *)
(* BTreeSet; `?` returns the first error and drops the peers built so far. *)
(***************************************************************************)
\* What a connection attempt can meet.
ConnectOutcomes(role) ==
    CASE role = "Coord" -> {"ok", "connect_failed"}
      [] role = "Worker" -> {"ok", "bind_failed", "accept_failed"}

\* Protocol::connect: the coordinator maps a failed TcpStream::connect to
\* RussulaError::Connect; the worker unwraps bind and maps a failed accept to
\* RussulaError::NetworkFail.
Protocol_connect(role, outcome) ==
    CASE outcome = "ok" -> Ok
      [] outcome = "connect_failed" -> Err("Connect", <<>>)
      [] outcome = "accept_failed" -> Err("NetworkFail", <<>>)
      [] outcome = "bind_failed" -> Panic("Bind", <<>>)

\* Variant: an address whose connection failed is left out and build goes on.
RussulaBuilder_build_step_skips_failed(peers, addr, r, last) ==
    [peers |-> IF r.tag = "Ok" THEN Append(peers, addr) ELSE peers,
     res |-> IF last THEN Ok ELSE NoResult]

\* One iteration of the loop of build for address addr, whose connect
\* returned r; after the last entry of peer_list build returns
\* Ok(Russula { peer_list }).
RussulaBuilder_build_step(peers, addr, r, last) ==
    IF r.tag = "Ok"
    THEN [peers |-> Append(peers, addr),
          res |-> IF last THEN Ok ELSE NoResult]
    ELSE [peers |-> peers, res |-> r]

\* Variant: the listener stays open after the first accept.
Worker_connect_accept_keeps_listening(outcome, backlog) ==
    [res |-> Protocol_connect("Worker", outcome),
     listener |-> "listening",
     backlog |-> IF outcome = "ok" THEN backlog - 1 ELSE backlog,
     conns |-> IF outcome = "ok" THEN 1 ELSE 0]

\* The worker's connect after the bind: one accept().await; the stream it
\* yields is returned; the listener is a local of connect and is dropped when
\* connect returns, and with it the connections still waiting in its queue.
Worker_connect_accept(outcome, backlog) ==
    [res |-> Protocol_connect("Worker", outcome),
     listener |-> "dropped",
     backlog |-> 0,
     conns |-> IF outcome = "ok" THEN 1 ELSE 0]

\* build calls the coordinator's connect for the next entry of peer_list.
BuildConnect ==
    /\ mode = "build" /\ bres = NoResult /\ bidx <= Len(bpeer_list)
    /\ brole = "Coord"
    /\ \E outcome \in ConnectOutcomes(brole), addr \in {bpeer_list[bidx]} :
       \E out \in {RussulaBuilder_build_step(bpeers, addr,
                                             Protocol_connect(brole, outcome),
                                             bidx = Len(bpeer_list))} :
            /\ bpeers' = out.peers
            /\ bres' = out.res
            /\ battempts' = [battempts EXCEPT ![addr] = @ + 1]
            /\ btried' = Append(btried, addr)
            /\ bconns' = [bconns EXCEPT ![addr] = IF outcome = "ok" THEN @ + 1 ELSE @]
    /\ bidx' = bidx + 1
    /\ UNCHANGED <<mode, brole, baddr, bpeer_list, blistener, bbacklog, bdialed, bquery,
                   fnVars, aggVars, closedVars, orchVars>>

\* build calls the worker's connect for the next entry of peer_list: the bind.
\* A bind that fails panics at the unwrap.
BuildBind ==
    /\ mode = "build" /\ bres = NoResult /\ bidx <= Len(bpeer_list)
    /\ brole = "Worker"
    /\ \E outcome \in {"ok", "bind_failed"}, addr \in {bpeer_list[bidx]} :
        /\ blistener[addr] = "none"
        /\ IF outcome = "ok"
           THEN /\ blistener' = [blistener EXCEPT ![addr] = "listening"]
                /\ UNCHANGED <<bidx, bpeers, bres, battempts, btried>>
           ELSE \E out \in {RussulaBuilder_build_step(bpeers, addr,
                                                      Protocol_connect(brole, outcome),
                                                      bidx = Len(bpeer_list))} :
                    /\ bpeers' = out.peers
                    /\ bres' = out.res
                    /\ battempts' = [battempts EXCEPT ![addr] = @ + 1]
                    /\ btried' = Append(btried, addr)
                    /\ bidx' = bidx + 1
                    /\ UNCHANGED blistener
    /\ UNCHANGED <<mode, brole, baddr, bpeer_list, bbacklog, bconns, bdialed, bquery,
                   fnVars, aggVars, closedVars, orchVars>>

\* The worker's accept returns: with the first connection of the queue, or
\* with an error; connect returns and build goes on.
BuildAccept ==
    /\ mode = "build" /\ bres = NoResult /\ bidx <= Len(bpeer_list)
    /\ brole = "Worker"
    /\ \E outcome \in {"ok", "accept_failed"}, addr \in {bpeer_list[bidx]} :
        /\ blistener[addr] = "listening"
        /\ outcome = "ok" => bbacklog[addr] > 0
        /\ \E acc \in {Worker_connect_accept(outcome, bbacklog[addr])} :
           \E out \in {RussulaBuilder_build_step(bpeers, addr, acc.res,
                                                 bidx = Len(bpeer_list))} :
                /\ bpeers' = out.peers
                /\ bres' = out.res
                /\ blistener' = [blistener EXCEPT ![addr] = acc.listener]
                /\ bbacklog' = [bbacklog EXCEPT ![addr] = acc.backlog]
                /\ bconns' = [bconns EXCEPT ![addr] = @ + acc.conns]
                /\ battempts' = [battempts EXCEPT ![addr] = @ + 1]
                /\ btried' = Append(btried, addr)
    /\ bidx' = bidx + 1
    /\ UNCHANGED <<mode, brole, baddr, bpeer_list, bdialed, bquery, fnVars, aggVars, closedVars, orchVars>>

\* A peer dials an address of the worker: the connection is queued while a
\* listener is bound to the address and refused otherwise.
BuildDial ==
    /\ mode = "build" /\ brole = "Worker"
    /\ Len(bdialed) < MaxDials
    /\ \E a \in Addrs :
        /\ bdialed' = Append(bdialed, a)
        /\ bbacklog' = [bbacklog EXCEPT ![a] =
                            IF blistener[a] = "listening" THEN @ + 1 ELSE @]
    /\ UNCHANGED <<mode, brole, bidx, bpeers, bres, battempts, baddr, bpeer_list,
                   btried, blistener, bconns, bquery, fnVars, aggVars, closedVars, orchVars>>

\* build with an empty peer_list: the loop has nothing to iterate over and
\* build returns Ok(Russula { peer_list }) with the empty list.
BuildNoPeers ==
    /\ mode = "build" /\ bres = NoResult /\ bidx > Len(bpeer_list)
    /\ bres' = Ok
    /\ UNCHANGED <<mode, brole, bidx, bpeers, battempts, baddr, bpeer_list, btried,
                   blistener, bbacklog, bconns, bdialed, bquery,
                   fnVars, aggVars, closedVars, orchVars>>

\* The caller uses the aggregate that build returned, every protocol still in
\* its first state: run_till_ready (first is the first peer it has to drive,
\* Len + 1 when it returns at once), poll_next, and check_self_state with
\* every state of the role (check is the set of states for which it is true).
BuildQuery ==
    /\ mode = "build" /\ bres = Ok /\ bquery = NoBuiltQuery
    /\ \E states \in {[i \in 1..Len(bpeers) |-> Protocol_new(brole)]} :
       \E rxs \in [1..Len(bpeers) -> AggInputs(brole)] :
       \E out \in {Russula_poll_next(brole, states, rxs)} :
            bquery' = [called |-> TRUE,
                       first |-> FirstNotReady(brole, states, 1),
                       poll |-> out.poll, res |-> out.res, polled |-> out.polled,
                       check |-> {s \in Phases(brole) :
                                     Russula_check_self_state(brole, states, s)}]
    /\ UNCHANGED <<mode, brole, bidx, bpeers, bres, battempts, baddr, bpeer_list,
                   btried, blistener, bbacklog, bconns, bdialed,
                   fnVars, aggVars, closedVars, orchVars>>

NextBuild ==
    \/ BuildConnect \/ BuildBind \/ BuildAccept \/ BuildDial
    \/ BuildNoPeers \/ BuildQuery

SpecBuild == InitBuild /\ [][NextBuild]_vars

(***************************************************************************)
(* delete_sg: InfraDetail::delete_security_group.                          *)
(***************************************************************************)
\* Variant: the loop goes on whatever the last result was.
Sg_retry_again_after_success(res, retries) == retries > 0

\* The condition of the retry loop: the last request failed and a retry is left.
Sg_retry_again(res, retries) == res = "err" /\ retries > 0

\* The first request and the five-second sleep; EC2 accepts or refuses it.
SgDelete ==
    /\ mode = "delete_sg" /\ spc = "start"
    /\ \E r \in {"ok", "err"} : slog' = <<r>>
    /\ sretries' = DeleteRetries
    /\ spc' = "loop"
    /\ UNCHANGED <<mode, sret, wcdone, wcpc, dstart, dtarget, drxs, drun, dpoll,
                   wptarget, wpstates, wppc, wppoll, wpcmd, wpres,
                   fnVars, aggVars, closedVars, buildVars>>

\* One turn of the loop: sleep ten seconds, send the request again, count it.
SgRetry ==
    /\ mode = "delete_sg" /\ spc = "loop"
    /\ Sg_retry_again(slog[Len(slog)], sretries)
    /\ \E r \in {"ok", "err"} : slog' = Append(slog, r)
    /\ sretries' = sretries - 1
    /\ UNCHANGED <<mode, spc, sret, wcdone, wcpc, dstart, dtarget, drxs, drun, dpoll,
                   wptarget, wpstates, wppc, wppoll, wpcmd, wpres,
                   fnVars, aggVars, closedVars, buildVars>>

\* The loop is over: the last result is mapped to OrchError::Ec2 or to Ok(()).
SgReturn ==
    /\ mode = "delete_sg" /\ spc = "loop"
    /\ ~Sg_retry_again(slog[Len(slog)], sretries)
    /\ sret' = IF slog[Len(slog)] = "ok" THEN Ok ELSE Err("Ec2", <<>>)
    /\ spc' = "done"
    /\ UNCHANGED <<mode, slog, sretries, wcdone, wcpc, dstart, dtarget, drxs, drun, dpoll,
                   wptarget, wpstates, wppc, wppoll, wpcmd, wpres,
                   fnVars, aggVars, closedVars, buildVars>>

(***************************************************************************)
(* wait_complete: ssm_utils::common::wait_complete.                        *)
(***************************************************************************)
\* poll_ssm_results of one command: Ready once the command has completed on
\* its hosts, Pending while it is still in progress.
poll_ssm_results(cmd, done) == IF cmd \in done THEN "Ready" ELSE "Pending"

\* A command completes on its hosts.
WcCmdCompletes ==
    /\ mode \in {"wait_complete", "wait_phase"} /\ wcpc # "returned"
    /\ \E cmd \in Cmds \ wcdone : wcdone' = wcdone \cup {cmd}
    /\ UNCHANGED <<mode, wcpc, slog, sretries, spc, sret, dstart, dtarget, drxs, drun, dpoll,
                   wptarget, wpstates, wppc, wppoll, wpcmd, wpres,
                   fnVars, aggVars, closedVars, buildVars>>

\* One round of the loop: every command is polled and the ready ones are
\* counted; the call breaks out when all are ready and goes to sleep otherwise.
WcPollRound ==
    /\ mode = "wait_complete" /\ wcpc = "poll"
    /\ \E completed_tasks \in
            {Cardinality({cmd \in Cmds : poll_ssm_results(cmd, wcdone) = "Ready"})} :
         wcpc' = IF completed_tasks = NumCmds THEN "returned" ELSE "sleep"
    /\ UNCHANGED <<mode, wcdone, slog, sretries, spc, sret, dstart, dtarget, drxs, drun, dpoll,
                   wptarget, wpstates, wppc, wppoll, wpcmd, wpres,
                   fnVars, aggVars, closedVars, buildVars>>

\* The sleep of poll_delay_ssm is over and the next round begins.
WcSleep ==
    /\ mode = "wait_complete" /\ wcpc = "sleep"
    /\ wcpc' = "poll"
    /\ UNCHANGED <<mode, wcdone, slog, sretries, spc, sret, dstart, dtarget, drxs, drun, dpoll,
                   wptarget, wpstates, wppc, wppoll, wpcmd, wpres,
                   fnVars, aggVars, closedVars, buildVars>>

(***************************************************************************)
(* drive: NetbenchWorkerServerProtocol::run_till_state and a loop of       *)
(* poll_state, on two copies of one protocol with the same reads.          *)
(***************************************************************************)
\* A protocol in any state is driven to any target; its reads find rxs.
DriveWorker ==
    /\ mode = "drive" /\ dtarget = "none"
    /\ \E s \in Phases("Worker"), target \in Phases("Worker"),
          rxs \in [1..MaxRuns -> AggInputs("Worker")] :
       \E d \in {[NoDrive EXCEPT !.state = s]} :
            /\ dstart' = s /\ dtarget' = target /\ drxs' = rxs
            /\ drun' = Worker_run_till_state(d, target, rxs, MaxRuns)
            /\ dpoll' = Worker_poll_state_loop(d, target, rxs, MaxRuns)
    /\ UNCHANGED <<mode, slog, sretries, spc, sret, wcdone, wcpc,
                   wptarget, wpstates, wppc, wppoll, wpcmd, wpres,
                   fnVars, aggVars, closedVars, buildVars>>

(***************************************************************************)
(* wait_phase: ServerNetbenchRussula::wait_workers_running / wait_done and *)
(* ClientNetbenchRussula::wait_done.  The three loops differ in the poll   *)
(* of the aggregate they call, i.e. in the phase they await.               *)
(***************************************************************************)
\* Russula::poll_worker_running / poll_done: every session is polled once
\* toward the target; Ready when every session reports Ready, Pending
\* otherwise; the first error of a session ends the call.
Russula_poll_state(states, target, rxs) ==
    LET n == Len(states)
        p == [i \in 1..n |-> Coord_poll_state(states[i], target, rxs[i])]
        failed == {i \in 1..n : p[i].res.tag # "Ok"}
        stop == IF failed = {} THEN n + 1
                ELSE CHOOSE i \in failed : \A j \in failed : i <= j
    IN  [states |-> [i \in 1..n |-> IF i <= stop THEN p[i].state ELSE states[i]],
         res |-> IF stop > n THEN Ok ELSE p[stop].res,
         poll |-> IF stop <= n THEN "none"
                  ELSE IF \A i \in 1..n : p[i].poll = "Ready" THEN "Ready"
                  ELSE "Pending"]

\* Variant: the loop goes on until the worker command has completed as well.
Wp_break_when_worker_ready(poll_coord, poll_worker) ==
    poll_coord = "Ready" /\ poll_worker = "Ready"

\* The condition of the break: poll_coord_done.is_ready().
Wp_break(poll_coord, poll_worker) == poll_coord = "Ready"

\* The orchestrator calls one of the loops; target is the phase it awaits.
WpCall ==
    /\ mode = "wait_phase" /\ wppc = "idle"
    /\ \E target \in Phases("Coord") : wptarget' = target
    /\ wppc' = "poll"
    /\ UNCHANGED <<mode, wpstates, wppoll, wpcmd, wpres,
                   slog, sretries, spc, sret, wcdone, wcpc,
                   dstart, dtarget, drxs, drun, dpoll,
                   fnVars, aggVars, closedVars, buildVars>>

\* One round of the loop: the worker command is polled, then the aggregate
\* (both results are unwrapped); the loop breaks or goes to sleep.
WpPollRound ==
    /\ mode = "wait_phase" /\ wppc = "poll"
    /\ \E rxs \in [Peers -> AggInputs("Coord")] :
       \E out \in {Russula_poll_state(wpstates, wptarget, rxs)} :
            /\ wpcmd' = poll_ssm_results(1, wcdone)
            /\ wpstates' = out.states
            /\ wppoll' = out.poll
            /\ wppc' = IF out.res.tag # "Ok" THEN "panicked"
                       ELSE IF Wp_break(out.poll, wpcmd') THEN "returned"
                       ELSE "sleep"
            /\ wpres' = IF out.res.tag # "Ok" THEN Panic(out.res.kind, out.res.dbg)
                        ELSE IF Wp_break(out.poll, wpcmd') THEN Ok
                        ELSE wpres
    /\ UNCHANGED <<mode, wptarget,
                   slog, sretries, spc, sret, wcdone, wcpc,
                   dstart, dtarget, drxs, drun, dpoll,
                   fnVars, aggVars, closedVars, buildVars>>

\* The five-second sleep is over and the next round begins.
WpSleep ==
    /\ mode = "wait_phase" /\ wppc = "sleep"
    /\ wppc' = "poll"
    /\ UNCHANGED <<mode, wptarget, wpstates, wppoll, wpcmd, wpres,
                   slog, sretries, spc, sret, wcdone, wcpc,
                   dstart, dtarget, drxs, drun, dpoll,
                   fnVars, aggVars, closedVars, buildVars>>

NextOrch ==
    \/ SgDelete \/ SgRetry \/ SgReturn
    \/ WcCmdCompletes \/ WcPollRound \/ WcSleep
    \/ DriveWorker
    \/ WpCall \/ WpPollRound \/ WpSleep

Next == NextFn \/ NextAgg \/ NextClosed \/ NextBuild \/ NextOrch

Spec == Init /\ [][Next]_vars

\* The coordinator's task keeps running: a step that is enabled is taken, and a
\* read completes once the stream holds data.  Nothing obliges a caller to call,
\* a worker to send, or a readiness event to fire without data.
SpecFair ==
    /\ Spec
    /\ WF_vars(CoordSend) /\ WF_vars(CoordStep) /\ WF_vars(CoordRecv)

\* As SpecFair, and every worker keeps running too: its run_till_ready loop
\* goes on, and its caller polls again whenever the last poll has returned.
SpecFairPolling ==
    /\ SpecFair
    /\ \A i \in Peers : /\ WF_vars(WorkerRunTillReadyStep(i))
                         /\ WF_vars(WorkerPollNext(i))

\* The task that called wait_complete keeps running: it polls when it is due
\* and wakes from its sleep.  Nothing obliges a command to complete.
SpecFairWait ==
    /\ Spec
    /\ WF_vars(WcPollRound) /\ WF_vars(WcSleep)

\* As SpecFair, and the worker of the last session answers: once the
\* coordinator's token has arrived, its run_till_ready loop reads it.
SpecFairSibling ==
    /\ SpecFair
    /\ WF_vars(c2w[NumPeers] # <<>> /\ WorkerRunTillReadyStep(NumPeers))

\* As SpecFair, and the worker of the first session is live: once the
\* coordinator's token has arrived, its run_till_ready loop reads it.
SpecFairHandshake ==
    /\ SpecFair
    /\ WF_vars(c2w[1] # <<>> /\ WorkerRunTillReadyStep(1))

(***************************************************************************)
(* C1: the phase of a protocol instance never moves to an earlier phase of *)
(* its chain: in every step of every system, the position of each          *)
(* instance's phase in its role's chain does not decrease.                 *)
(***************************************************************************)
C1_PhaseNeverMovesBack ==
    [][ /\ Pos(frole, fphase') >= Pos(frole, fphase)
        /\ \A k \in Sessions : Pos(arole, astate'[k]) >= Pos(arole, astate[k])
        /\ \A i \in Peers : /\ Pos("Coord", cstate'[i]) >= Pos("Coord", cstate[i])
                            /\ Pos("Worker", wstate'[i]) >= Pos("Worker", wstate[i])
      ]_vars

\* A coordinator session has walked its whole chain.
C1_Witness ==
    mode = "closed" /\ \E i \in Peers : cstate[i] = Terminal("Coord")

(***************************************************************************)
(* C2: when the aggregate poll of a worker aggregate returns Ready, every  *)
(* session is at the target phase, so all the sessions are at one and the  *)
(* same phase; with a session that the call left behind it returns         *)
(* Pending.                                                                *)
(***************************************************************************)
C2_ReadyOnlyAtCommonTarget ==
    (mode = "agg" /\ arole = "Worker" /\ apc.op = "poll_next" /\ apoll = "Ready")
        => \E target \in Phases(arole) : \A k \in Sessions : astate[k] = target

(***************************************************************************)
(* C3: completion barrier: a coordinator session leaves CoordWaitPeerDone  *)
(* for CoordDone only in a step that has received the worker's Done token  *)
(* on that session.                                                        *)
(***************************************************************************)
C3_CompletionBarrier ==
    [][ /\ (/\ mode = "fn" /\ frole = "Coord" /\ fop' = "run"
            /\ fphase = "CoordWaitPeerDone" /\ fphase' = "CoordDone")
                => frx' = Data(<<Worker_as_bytes("Done")>>)
        /\ \A i \in Peers :
                (cstate[i] = "CoordWaitPeerDone" /\ cstate'[i] = "CoordDone")
                    => /\ <<Worker_as_bytes("Done")>> \in crecv'[i]
                       /\ wstate[i] = "Done"
      ]_vars

(***************************************************************************)
(* C4: entry barrier: a coordinator session at or beyond Ready has         *)
(* received the worker's Ready token and its worker has left WaitPeerInit; *)
(* a step takes a session out of CheckPeer, into Ready, only when it reads *)
(* that token.                                                             *)
(***************************************************************************)
C4_EntryBarrier ==
    /\ [](mode = "closed" =>
            \A i \in Peers :
                Pos("Coord", cstate[i]) >= Pos("Coord", "CoordReady") =>
                    /\ Pos("Worker", wstate[i]) >= Pos("Worker", "Ready")
                    /\ <<Worker_as_bytes("Ready")>> \in crecv[i])
    /\ [][ \A k \in Sessions :
            (arole = "Coord" /\ astate[k] = "CoordCheckPeer"
                             /\ astate'[k] # "CoordCheckPeer")
                => /\ astate'[k] = "CoordReady"
                   /\ arx'[k] = Data(<<Worker_as_bytes("Ready")>>) ]_vars

\* Both coordinator sessions are in Ready after the handshake.
C4_Witness ==
    mode = "closed" /\ \A i \in Peers : cstate[i] = "CoordReady" /\ wstate[i] = "Ready"

(***************************************************************************)
(* C5: a worker leaves Ready, for Run, only in a step that reads the       *)
(* coordinator's run command (coord_run_peer); with no message or any      *)
(* other bytes it stays in Ready.  A connected worker at or beyond Run has *)
(* read that token.                                                        *)
(***************************************************************************)
C5_RunOnlyOnRunCommand ==
    /\ [](mode = "closed" =>
            \A i \in Peers :
                Pos("Worker", wstate[i]) >= Pos("Worker", "Run") =>
                    <<CoordNetbenchServerState_as_bytes("RunPeer")>> \in wrecv[i])
    /\ [][ /\ \A k \in Sessions :
                (arole = "Worker" /\ astate[k] = "Ready" /\ astate'[k] # "Ready")
                    => /\ astate'[k] = "Run"
                       /\ arx'[k] = Data(<<CoordNetbenchServerState_as_bytes("RunPeer")>>)
           /\ (frole = "Worker" /\ fphase = "Ready" /\ fop' = "run" /\ fphase' # "Ready")
                    => /\ fphase' = "Run"
                       /\ frx' = Data(<<CoordNetbenchServerState_as_bytes("RunPeer")>>)
           /\ \A i \in Peers :
                (wstate[i] = "Ready" /\ wstate'[i] # "Ready")
                    => /\ wstate'[i] = "Run"
                       /\ c2w[i] = <<CoordNetbenchServerState_as_bytes("RunPeer")>>
         ]_vars

\* A session of a worker aggregate has moved from Ready to Run in a poll.
C5_Witness ==
    /\ mode = "agg" /\ arole = "Worker"
    /\ \E k \in Sessions : aprev[k] = "Ready" /\ astate[k] = "Run"

(***************************************************************************)
(* C6: peer-driven step, for every role: in a phase that declares a peer   *)
(* token, process_msg advances the session by exactly one phase when the   *)
(* message received equals the token, and leaves the phase unchanged when  *)
(* the message differs.                                                    *)
(***************************************************************************)
C6_Expected(role, s) ==
    CASE role = "Worker" ->
            IF Worker_transition_step(s).kind = "AwaitPeerState"
            THEN PeerDriven(Worker_transition_step(s).token)
            ELSE NoPeerMsg
      [] role = "Coord" -> Coord_expect_peer_msg(s)
      [] role = "NetbenchWorker" -> NetbenchWorkerState_next_transition_msg(s)
      [] role = "NetbenchOrch" -> NetbenchOrchState_next_transition_msg(s)

C6_Successor(role, s) ==
    IF s = Terminal(role) THEN s ELSE Chain(role)[Pos(role, s) + 1]

C6_PeerDrivenStep ==
    [][ (/\ mode = "fn"
         /\ fop' = "process_msg"
         /\ C6_Expected(frole, fphase).peer_driven)
            => IF frx' = Data(<<C6_Expected(frole, fphase).token>>)
               THEN fphase' = C6_Successor(frole, fphase)
               ELSE fphase' = fphase ]_vars

(***************************************************************************)
(* C7: a worker step in WaitPeerInit or in Ready whose read finds no data  *)
(* is not an error: the step returns Ok and the phase is unchanged.        *)
(***************************************************************************)
C7_NoDataIsNotAnError ==
    [][ (/\ mode = "fn" /\ frole = "Worker"
         /\ fphase \in {"WaitPeerInit", "Ready"}
         /\ fop' = "run"
         /\ frx' = Blocked)
            => (fres' = Ok /\ fphase' = fphase) ]_vars

(***************************************************************************)
(* C8: token round trip: decoding the token of a phase gives that phase    *)
(* back, for every phase of every role, the coordinator's CheckPeer        *)
(* included; bytes that are the token of no phase of the role decode to a  *)
(* bad-message error.                                                      *)
(***************************************************************************)
C8_TokenRoundTrip ==
    mode = "fn" =>
        /\ fop = "round_trip" => (fres = Ok /\ fret = fphase)
        /\ (/\ fop = "from_bytes"
            /\ frx.bytes \notin {<<Role_as_bytes(frole, p)>> : p \in Phases(frole)})
                => (fres.tag = "Err" /\ fres.kind = "BadMsg")

(***************************************************************************)
(* C9: a step that reads non-empty bytes that are no phase token yields a  *)
(* bad-message error that carries the bytes, and the phase is unchanged.   *)
(***************************************************************************)
C9_Malformed(b) ==
    b # <<>> /\ \A a \in WorkerTokens \cup CoordTokens \cup PeerCoordTokens \cup NetbenchTokens
                \cup {"wait_peer_done_next"} : b # <<a>>

C9_MalformedMessage ==
    [][ (/\ mode = "fn"
         /\ fop' \in {"run", "recv_msg"}
         /\ ~frx'.blocked
         /\ C9_Malformed(frx'.bytes))
            => /\ fres' = Err("BadMsg", frx'.bytes)
               /\ fphase' = fphase ]_vars

(***************************************************************************)
(* C10: the terminal phase is a fixed point: a step or an explicit         *)
(* successor call on a session in its last phase leaves it there, reads    *)
(* nothing and sends nothing.                                              *)
(***************************************************************************)
C10_TerminalFixedPoint ==
    [][ (/\ mode = "fn" /\ fphase = Terminal(frole)
         /\ fop' \in {"run", "next", "process_msg"})
            => /\ fphase' = Terminal(frole)
               /\ fret' \in {"none", Terminal(frole)}
               /\ fsent' = <<>>
               /\ (fop' = "run" => frx' = Blocked /\ fres' = Ok)
      ]_vars

\* A step has run on a session that was already in its last phase.
C10_Witness ==
    /\ mode = "fn" /\ fop = "run"
    /\ fprev = Terminal(frole) /\ fphase = Terminal(frole)

C12_ReadyStepKeepsPhase ==
    [][ (/\ mode = "fn" /\ frole = "Coord"
         /\ fphase = "CoordReady" /\ fop' = "run")
            => fphase' = fphase ]_vars

(***************************************************************************)
(* C12, amended: the coordinator's Ready phase awaits no peer message: a   *)
(* step (run, and so a poll) moves the session to the successor at once,   *)
(* with no read and no write; run_till_ready never steps a session that is *)
(* in Ready, so the session leaves Ready only when the caller polls.       *)
(***************************************************************************)
C12_ReadyLeavesOnlyByPoll ==
    [][ /\ (/\ mode = "fn" /\ frole = "Coord"
            /\ fphase = "CoordReady" /\ fop' = "run")
                => /\ fphase' = Coord_next("CoordReady")
                   /\ fphase' # fphase
                   /\ fres' = Ok /\ frx' = Blocked /\ fsent' = <<>>
        /\ \A k \in Sessions :
                (/\ mode = "agg" /\ arole = "Coord"
                 /\ astate[k] = "CoordReady"
                 /\ apc.op \in {"idle", "run_till_ready"}
                 /\ apc'.op \in {"idle", "run_till_ready"})
                    => astate'[k] = "CoordReady"
        /\ \A k \in Sessions :
                (/\ mode = "agg" /\ arole = "Coord"
                 /\ astate[k] = "CoordReady"
                 /\ astate'[k] # "CoordReady")
                    => /\ k \in apolled'
                       /\ astate'[k] = Coord_next("CoordReady")
      ]_vars

\* A step has been made on a coordinator state that was in Ready.
C12_Witness ==
    /\ mode = "fn" /\ frole = "Coord" /\ fop = "run"
    /\ fprev = "CoordReady" /\ fphase = Coord_next("CoordReady")

(***************************************************************************)
(* C13: for a coordinator aggregate with every session in Ready, one       *)
(* poll_next returns Ready and leaves every session in RunPeer, the phase  *)
(* whose token is the run command a worker in Ready awaits, whatever the   *)
(* workers have sent.                                                      *)
(***************************************************************************)
C13_PollFromReadyEntersRunPeer ==
    (/\ mode = "agg" /\ arole = "Coord"
     /\ apc.op = "poll_next"
     /\ \A k \in Sessions : aprev[k] = "CoordReady")
        => /\ apoll = "Ready"
           /\ \A k \in Sessions :
                Coord_as_bytes(astate[k]) = Worker_transition_step("Ready").token

(***************************************************************************)
(* C14: a coordinator session in the phase it enters from Ready (RunPeer)  *)
(* announces its token and moves to the successor on the very next step,   *)
(* without a receive.                                                      *)
(***************************************************************************)
C14_RunPeerAnnouncesAndMoves ==
    [][ (/\ mode = "fn" /\ frole = "Coord"
         /\ fphase = Coord_next("CoordReady") /\ fop' = "run")
            => /\ fsent' = <<Coord_as_bytes(fphase)>>
               /\ fphase' = Coord_next(fphase)
               /\ fphase' # fphase
               /\ frx' = Blocked ]_vars

(***************************************************************************)
(* C15: a worker session in WaitPeerInit that receives coord_check_peer    *)
(* moves to Ready and sends server_ready in that step; while it stays in   *)
(* WaitPeerInit it sends nothing, so server_ready is the next message it   *)
(* sends.                                                                  *)
(***************************************************************************)
C15_ReadyAnnouncedAfterCheckPeer ==
    [][ /\ (/\ mode = "fn" /\ frole = "Worker"
            /\ fphase = "WaitPeerInit" /\ fop' = "run")
                => IF frx' = Data(<<"coord_check_peer">>)
                   THEN fphase' = "Ready" /\ fsent' = <<"server_ready">> /\ fres' = Ok
                   ELSE fphase' = "WaitPeerInit" /\ fsent' = <<>>
        /\ \A i \in Peers :
                (mode = "closed" /\ wstate[i] = "WaitPeerInit")
                    => IF wstate'[i] # "WaitPeerInit"
                       THEN /\ wstate'[i] = "Ready"
                            /\ c2w[i] = <<"coord_check_peer">>
                            /\ w2c'[i] = w2c[i] \o <<"server_ready">>
                       ELSE w2c'[i] \in {w2c[i], <<>>}
      ]_vars

\* A connected worker has read coord_check_peer, is in Ready, and the
\* coordinator has read its server_ready.
C15_Witness ==
    /\ mode = "closed"
    /\ \E i \in Peers : /\ wstate[i] = "Ready"
                        /\ <<"coord_check_peer">> \in wrecv[i]
                        /\ <<"server_ready">> \in crecv[i]

C17_PollAlwaysReturns ==
    (mode = "closed" /\ cpc.op = "poll_next") ~> (cpc.op \in {"idle", "dead"})

(***************************************************************************)
(* C18: each call of the aggregate poll polls every session of the         *)
(* aggregate, the sessions after one that reported Pending included.       *)
(***************************************************************************)
C18_PollReachesEverySession ==
    (mode = "agg" /\ apc.op = "poll_next") => apolled = Sessions

(***************************************************************************)
(* C19: once a session of an aggregate has had an error (a malformed       *)
(* message or an I/O failure), the aggregate never reports Ready: the      *)
(* unwrap has ended the caller, and no later poll or check is made.        *)
(***************************************************************************)
C19_NoReadyAfterFailure ==
    /\ [](/\ afailed # {} => (apoll # "Ready" /\ apc.op = "dead")
          /\ cpc.op = "dead" => cpoll # "Ready"
          /\ \A i \in Peers : wmode[i] = "dead" => wpoll[i] # "Ready")
    /\ [][ /\ apc.op = "dead" => UNCHANGED aggVars
           /\ cpc.op = "dead" => UNCHANGED <<cpc, cstate, cpoll>>
           /\ \A i \in Peers :
                wmode[i] = "dead" =>
                    (wmode'[i] = "dead" /\ wpoll'[i] = wpoll[i] /\ wstate'[i] = wstate[i])
         ]_vars

\* A poll in which one session moved on and a later one read a malformed message.
C19_Witness ==
    /\ mode = "agg" /\ afailed # {} /\ ares.kind = "BadMsg"
    /\ \E k \in Sessions : k \notin afailed /\ astate[k] # aprev[k]

C21_Ascending(s) == \A i, j \in 1..Len(s) : i < j => s[i] < s[j]

C21_Elements(s) == {s[i] : i \in 1..Len(s)}

C21_SessionsInAddressOrder ==
    /\ [](mode = "build" =>
            /\ C21_Ascending(bpeer_list)
            /\ C21_Elements(bpeer_list) = C21_Elements(baddr)
            /\ Len(bpeer_list) = Cardinality(C21_Elements(baddr))
            /\ C21_Ascending(btried)
            /\ btried = SubSeq(bpeer_list, 1, Len(btried))
            /\ C21_Ascending(bpeers)
            /\ bres = Ok => C21_Elements(bpeers) = C21_Elements(baddr))
    /\ [][ /\ (mode = "agg" /\ apc.op = "run_till_ready" /\ apc'.op = "run_till_ready")
                => apc'.idx >= apc.idx
           /\ (mode = "agg" /\ apc'.op = "poll_next")
                => \A k \in apolled' : \A j \in 1..k : j \in apolled'
           /\ (mode = "closed" /\ cpc.op = cpc'.op
                               /\ cpc.op \in {"run_till_ready", "poll_next"})
                => cpc'.idx >= cpc.idx
         ]_vars

\* The caller named the addresses out of order and one of them twice; build
\* has returned the aggregate.
C21_Witness ==
    /\ mode = "build" /\ bres = Ok
    /\ Len(bpeers) < Len(baddr) /\ Len(bpeers) > 1
    /\ baddr[1] > baddr[2]


(***************************************************************************)
(* C22: check_self_state(phase) returns true if and only if the phase of   *)
(* every session of the aggregate equals the given phase, and it is        *)
(* read-only, as is the aggregate's transition_step: the call changes no   *)
(* session's phase, reads no stream and writes no token.                   *)
(***************************************************************************)
C22_CheckIsReadOnlyAndExact ==
    /\ []((mode = "agg" /\ aret.op = "check_self_state")
            => (aret.matches <=> \A k \in Sessions : astate[k] = aret.state))
    /\ []((mode = "agg" /\ aret.op = "transition_step")
            => \A k \in Sessions : aret.steps[k] = Worker_transition_step(astate[k]))
    /\ [][ (mode = "agg" /\ apc.op = "idle"
                         /\ apc'.op \in {"check_self_state", "transition_step"})
                => /\ astate' = astate
                   /\ \A k \in Sessions : arx'[k] = Blocked /\ asent'[k] = <<>>
                   /\ afailed' = afailed ]_vars

\* check_self_state(Ready) has returned false on a worker aggregate whose first
\* session is in Ready and whose last session is not.
C22_Witness ==
    /\ mode = "agg" /\ arole = "Worker"
    /\ aret.op = "check_self_state" /\ aret.state = "Ready" /\ ~aret.matches
    /\ astate[1] = "Ready" /\ astate[NumSessions] # "Ready"


(***************************************************************************)
(* C23: liveness of the run command: once a coordinator session has been   *)
(* polled out of Ready into the phase that follows it while its worker is  *)
(* in Ready, the worker, which keeps calling poll_next over a connection   *)
(* that delivers every written token in order, eventually reaches Run.     *)
(***************************************************************************)
C23_RunCommandReachesWorker ==
    \A i \in Peers :
        (/\ mode = "closed"
         /\ cstate[i] = Coord_next("CoordReady")
         /\ wstate[i] = "Ready")
            ~> (wstate[i] = "Run")


(***************************************************************************)
(* C24: no order among the sibling sessions of one coordinator: the last   *)
(* session reaching Ready does not depend on an earlier one ever becoming  *)
(* ready.  Once run_till_ready runs on the coordinator and the worker of   *)
(* the last session is in its own run_till_ready, that session reaches     *)
(* Ready (unless the coordinator or that worker has failed), whatever the  *)
(* workers of the other sessions do.                                       *)
(***************************************************************************)
C24_SiblingReadyIndependently ==
    (/\ mode = "closed"
     /\ cpc.op = "run_till_ready"
     /\ wmode[NumPeers] = "run_till_ready")
        ~> (\/ Pos("Coord", cstate[NumPeers]) >= Pos("Coord", ReadyPhase("Coord"))
            \/ cpc.op = "dead"
            \/ wmode[NumPeers] = "dead")


(***************************************************************************)
(* C25: as the spec states it: the token of a phase is the token of no     *)
(* other phase of the same role or of the peer role of its endpoint        *)
(* (server worker and server coordinator; legacy worker and orchestrator), *)
(* so a token identifies one phase of one role.                            *)
(***************************************************************************)
C25_Endpoint(role) ==
    IF role \in {"Worker", "Coord"} THEN {"Worker", "Coord"}
    ELSE {"NetbenchWorker", "NetbenchOrch"}

C25_TokenIdentifiesPhaseAndRole ==
    (mode = "fn" /\ fop = "round_trip")
        => \A r \in C25_Endpoint(frole) : \A p \in Phases(r) :
                <<r, p>> # <<frole, fphase>> => frx.bytes # <<Role_as_bytes(r, p)>>

(***************************************************************************)
(* C25, amended: within one role no two phases share a token, and no token *)
(* of the server worker is a token of the server coordinator; the legacy   *)
(* worker and orchestrator chains use the same three tokens, so there a    *)
(* token identifies the phase but not the role.                            *)
(***************************************************************************)
C25_TokenIdentifiesPhase ==
    (mode = "fn" /\ fop = "round_trip")
        => /\ \A p \in Phases(frole) :
                p # fphase => frx.bytes # <<Role_as_bytes(frole, p)>>
           /\ frole \in {"Worker", "Coord"} =>
                \A r \in {"Worker", "Coord"} \ {frole} : \A p \in Phases(r) :
                    frx.bytes # <<Role_as_bytes(r, p)>>
           /\ frole \in {"NetbenchWorker", "NetbenchOrch"} =>
                \A r \in {"NetbenchWorker", "NetbenchOrch"} : \A p \in Phases(r) :
                    (frx.bytes = <<Role_as_bytes(r, p)>>) <=> (p = fphase)

\* The token of the coordinator's wait-for-done phase has been produced.
C25_Witness ==
    /\ mode = "fn" /\ fop = "round_trip"
    /\ frole = "Coord" /\ fphase = "CoordWaitPeerDone"
    /\ frx = Data(<<"coord_wait_peer_done">>)


(***************************************************************************)
(* C26: recv_msg of every role returns the no-message value, not an error  *)
(* and not an abort, when its single non-blocking read would block; the    *)
(* phase is unchanged.                                                     *)
(***************************************************************************)
C26_WouldBlockIsNoMessage ==
    [][ (mode = "fn" /\ fop' = "recv_msg" /\ frx' = Blocked)
            => (fres' = Ok /\ fret' = "none" /\ fphase' = fphase) ]_vars


(***************************************************************************)
(* C27: send_msg makes a single write; when the write would block or       *)
(* writes fewer bytes than the token has, it returns an error to its       *)
(* caller, and it returns Ok only when the whole token was written.        *)
(***************************************************************************)
C27_ShortWriteIsAnError ==
    [][ (mode = "fn" /\ fop' = "send_msg")
            => /\ (fwrite'.tag = "Err" \/ fwrite'.n < Len(fwrite'.token))
                    => fres'.tag = "Err"
               /\ fres' = Ok => (fwrite'.tag = "Ok" /\ fwrite'.n = Len(fwrite'.token))
      ]_vars


(***************************************************************************)
(* C28: a worker serves one coordinator connection per run: connect binds, *)
(* accepts one inbound connection and stops listening.  A session never    *)
(* holds more than one stream; a worker session holds a stream only once   *)
(* its listener is gone; once the listener is gone it stays gone, nothing  *)
(* waits in its queue and no later dial adds a stream to the session.      *)
(***************************************************************************)
C28_OneConnectionPerWorker ==
    /\ [](mode = "build" =>
            \A a \in Addrs :
                /\ bconns[a] <= 1
                /\ battempts[a] <= 1
                /\ brole = "Worker" =>
                    /\ bconns[a] = 1 => blistener[a] = "dropped"
                    /\ bconns[a] = 1 <=> (\E k \in 1..Len(bpeers) : bpeers[k] = a)
                    /\ blistener[a] # "listening" => bbacklog[a] = 0)
    /\ [][ \A a \in Addrs :
            (mode = "build" /\ brole = "Worker" /\ blistener[a] = "dropped")
                => /\ blistener'[a] = "dropped"
                   /\ bconns'[a] = bconns[a]
                   /\ bbacklog'[a] = 0 ]_vars

\* A worker address was dialled twice and its session holds the one stream
\* that connect accepted.
C28_Witness ==
    /\ mode = "build" /\ brole = "Worker"
    /\ \E a \in Addrs :
        /\ bconns[a] = 1 /\ blistener[a] = "dropped"
        /\ Cardinality({i \in 1..Len(bdialed) : bdialed[i] = a}) >= 2


(***************************************************************************)
(* C29.  delete_security_group sends at most 11 delete requests (the first *)
(* one and at most 10 retries), sends none after the first request that    *)
(* succeeded, and returns Ok exactly when its last request succeeded and   *)
(* an Ec2 error otherwise.                                                 *)
(***************************************************************************)
C29_BoundedDeleteRetry ==
    mode = "delete_sg" =>
        /\ Len(slog) <= 11
        /\ \A i \in 1..(Len(slog) - 1) : slog[i] = "err"
        /\ spc = "done" =>
            /\ sret = Ok <=> slog[Len(slog)] = "ok"
            /\ sret # Ok => sret = Err("Ec2", <<>>) /\ Len(slog) = 11

\* The first ten requests failed and the eleventh succeeded: the call returns Ok.
C29_Witness ==
    /\ mode = "delete_sg" /\ spc = "done"
    /\ Len(slog) = 11 /\ slog[11] = "ok" /\ sret = Ok


(***************************************************************************)
(* C30.  wait_complete polls a bounded number of rounds: a call returns    *)
(* even when one of its commands never reports completion.                 *)
(***************************************************************************)
C30_WaitCompleteReturns ==
    (mode = "wait_complete") ~> (wcpc = "returned")


(***************************************************************************)
(* C31.  Handshake liveness: when the coordinator runs run_till_ready on   *)
(* its first session and the worker of that session runs run_till_ready,   *)
(* both live and the stream delivering every token in order, the session   *)
(* and the worker are eventually both in their Ready phase.                *)
(***************************************************************************)
C31_HandshakeCompletes ==
    (mode = "closed" /\ cpc.op = "run_till_ready" /\ cpc.idx = 1
        /\ wmode[1] = "run_till_ready")
    ~> (cstate[1] = "CoordReady" /\ wstate[1] = "Ready")


C33_DeclaredRuleAgreesWithStep ==
    [][ (mode = "fn" /\ fop' = "run" /\ fphase' # fphase) =>
            /\ frole = "Worker" =>
                /\ Worker_transition_step(fphase).kind # "Finished"
                /\ Worker_transition_step(fphase).kind = "AwaitPeerState"
                    => frx' = Data(<<Worker_transition_step(fphase).token>>)
            /\ frole = "Coord" =>
                (Coord_expect_peer_msg(fphase).peer_driven
                    => frx' = Data(<<Coord_expect_peer_msg(fphase).token>>))
      ]_vars


(***************************************************************************)
(* C34.  One step of a protocol instance moves its phase by zero or by     *)
(* exactly one position of its chain, whatever it receives: no call, no    *)
(* message and no buffer of repeated tokens makes the phase skip a phase.  *)
(***************************************************************************)
C34_StepMovesAtMostOnePhase ==
    [][ /\ Pos(frole, fphase') \in {Pos(frole, fphase), Pos(frole, fphase) + 1}
        /\ \A k \in Sessions :
                Pos(arole, astate'[k]) \in {Pos(arole, astate[k]), Pos(arole, astate[k]) + 1}
        /\ \A i \in Peers :
            /\ Pos("Coord", cstate'[i]) \in {Pos("Coord", cstate[i]), Pos("Coord", cstate[i]) + 1}
            /\ Pos("Worker", wstate'[i]) \in {Pos("Worker", wstate[i]), Pos("Worker", wstate[i]) + 1}
      ]_vars

\* A coordinator step in CoordCheckPeer has read the worker's Ready token twice
\* in one buffer: the bytes do not decode, the step panics in CoordCheckPeer.
C34_Witness ==
    /\ mode = "fn" /\ frole = "Coord" /\ fop = "run" /\ fprev = "CoordCheckPeer"
    /\ frx = Data(<<"server_ready", "server_ready">>)
    /\ fphase = "CoordCheckPeer"


(***************************************************************************)
(* C35.  The blocking and the polling mode are equivalent: from the same   *)
(* state and with the same reads, run_till_state(target) and a loop that   *)
(* calls poll_state(target) until it returns Ready pass through the same   *)
(* states, write the same tokens, make the same number of reads and end    *)
(* in the same state with the same result (Ok, the same error, or neither  *)
(* has returned yet).                                                      *)
(***************************************************************************)
C35_BlockingEqualsPolling ==
    (mode = "drive" /\ dtarget # "none") => drun = dpoll

\* From WaitPeerInit to Run: the check token, then nothing, then the run token;
\* both modes pass Ready twice, announce Ready and Run, and return Ok in Run.
C35_Witness ==
    /\ mode = "drive" /\ dstart = "WaitPeerInit" /\ dtarget = "Run"
    /\ drun.res = Ok /\ drun.state = "Run"
    /\ drun.trace = <<"Ready", "Ready", "Run">>
    /\ drun.sent = <<"server_ready", "server_wait_peer_done">>
    /\ dpoll.trace = drun.trace


(***************************************************************************)
(* C36 as stated.  run_till_state(target) returns Ok only with the state   *)
(* equal to target; called with the state past target, the state runs on   *)
(* to the terminal state and the call never returns, and the loop of       *)
(* poll_state(target) never ends either.                                   *)
(***************************************************************************)
C36_PastTargetRunsToTerminal ==
    (mode = "drive" /\ dtarget # "none") =>
        /\ drun.res = Ok => drun.state = dtarget
        /\ Pos("Worker", dstart) > Pos("Worker", dtarget) =>
            /\ drun.res = NoResult /\ drun.state = Terminal("Worker")
            /\ dpoll.res = NoResult

(***************************************************************************)
(* C36, amended.  run_till_state(target) returns Ok only with the state    *)
(* equal to target.  Called with the state past target it never returns Ok *)
(* and the state is never the target again; poll_state(target) never       *)
(* returns Ready.  From Run or Done the worker runs on to Done and loops   *)
(* there; from Ready it stays until the run token arrives, and the call    *)
(* returns the error of a read that does not decode.  The coordinator's    *)
(* run_till_ready, called with a session past CoordReady, only moves that  *)
(* session along its chain and never returns.                              *)
(***************************************************************************)
C36_PastTargetNeverReturnsOk ==
    /\ []((mode = "drive" /\ dtarget # "none") =>
            /\ drun.res = Ok => drun.state = dtarget
            /\ dpoll.res = Ok => dpoll.state = dtarget
            /\ Pos("Worker", dstart) > Pos("Worker", dtarget) =>
                /\ drun.res # Ok /\ dpoll.res # Ok
                /\ \A k \in 1..Len(drun.trace) :
                        Pos("Worker", drun.trace[k]) > Pos("Worker", dtarget)
                /\ drun.res.tag = "Err" =>
                        /\ drun.state = "Ready" /\ drun.res.kind = "BadMsg"
                        /\ dpoll.res = drun.res
                /\ dstart \in {"Run", "Done"} =>
                        /\ drun.res = NoResult /\ drun.state = Terminal("Worker")
                        /\ dpoll.res = NoResult)
    /\ [][ (/\ mode = "closed" /\ cpc.op = "run_till_ready"
            /\ Pos("Coord", cstate[cpc.idx]) > Pos("Coord", ReadyPhase("Coord")))
           => /\ cpc' = cpc
              /\ cstate'[cpc.idx] \in {cstate[cpc.idx], Coord_next(cstate[cpc.idx])} ]_vars

\* A worker in Ready is driven toward WaitPeerInit and reads garbage: the call
\* returns BadMsg in Ready.
C36_Witness ==
    /\ mode = "drive" /\ dstart = "Ready" /\ dtarget = "WaitPeerInit"
    /\ drun.res.tag = "Err" /\ drun.state = "Ready"


(***************************************************************************)
(* C37.  Every session of an aggregate starts in the first state of the    *)
(* protocol given to the builder, and a step of one session changes that   *)
(* session's state only: a session whose state changes during              *)
(* run_till_ready or poll_next is one the call has stepped, its new state  *)
(* is what its own step yields from its own state and its own read, and    *)
(* one iteration of run_till_ready leaves every other session as it was.   *)
(***************************************************************************)
C37_StepChangesOnlyItsSession ==
    /\ mode = "agg" => \A k \in Sessions : astate[k] = Protocol_new(arole)
    /\ [][ /\ mode = "agg" =>
                \A k \in Sessions :
                    /\ astate'[k] # astate[k] =>
                        /\ k \in apolled'
                        /\ \E rx \in AggInputs(arole) :
                            astate'[k] \in {Protocol_run(arole, astate[k], rx).state,
                                            Protocol_poll_next(arole, astate[k], rx).state}
                    /\ (apc.op = "run_till_ready" /\ k # apc.idx) => astate'[k] = astate[k]
           /\ mode = "closed" =>
                \A i \in Peers :
                    /\ cstate'[i] # cstate[i] =>
                        /\ i = cpc.idx
                        /\ \A j \in Peers \ {i} : cstate'[j] = cstate[j]
                    /\ wstate'[i] # wstate[i] =>
                        \A j \in Peers \ {i} : wstate'[j] = wstate[j]
         ]_vars

\* One poll_next has moved the first session and has polled the second one,
\* which stayed where it was, as did the third, which was not polled.
C37_Witness ==
    /\ mode = "agg" /\ apc.op = "poll_next"
    /\ astate[1] # aprev[1]
    /\ 2 \in apolled /\ astate[2] = aprev[2]
    /\ 3 \notin apolled /\ astate[3] = aprev[3]


(***************************************************************************)
(* C38                                                                     *)
(***************************************************************************)
\* C38: a wait loop of the orchestrator (wait_workers_running, wait_done)
\* returns only from a round in which the poll of the coordinator aggregate
\* returned Ready, and then every session of the aggregate is at the awaited
\* phase; whether the loop returns does not depend on what the poll of the
\* worker command returned; after a round whose poll is Pending the loop
\* sleeps and polls again.
C38_WaitLoopReturnsOnAggregateReady ==
    /\ [](mode = "wait_phase" /\ wppc = "returned" =>
            /\ wppoll = "Ready"
            /\ Russula_check_self_state("Coord", wpstates, wptarget))
    /\ [][mode = "wait_phase" /\ wppc' # wppc =>
            /\ (wppc' = "returned") = (wppc = "poll" /\ wppoll' = "Ready")
            /\ (wppc = "poll" /\ wppoll' = "Pending" => wppc' = "sleep")
            /\ (wppc = "sleep" => wppc' = "poll")]_vars

\* wait_done has returned although the worker command had not completed when
\* the last round polled it.
C38_Witness ==
    /\ mode = "wait_phase" /\ wppc = "returned" /\ wptarget = "CoordDone"
    /\ wppoll = "Ready" /\ wpcmd = "Pending" /\ wpres = Ok
    /\ \A i \in Peers : wpstates[i] = "CoordDone"


(***************************************************************************)
(* C39                                                                     *)
(***************************************************************************)
\* C39: for an aggregate built from an empty address set, build makes no
\* connection attempt and returns nothing but Ok with an empty peer_list, and
\* on the aggregate it returned run_till_ready has no peer to drive, poll_next
\* returns Ready without polling a peer, and check_self_state is true for
\* every state of the role.
C39_EmptyAggregateIsVacuouslyReady ==
    mode = "build" /\ BTreeSet_from_iter(baddr) = {} =>
        /\ bpeer_list = <<>> /\ bpeers = <<>> /\ btried = <<>>
        /\ bres \in {NoResult, Ok}
        /\ \A a \in Addrs : /\ battempts[a] = 0 /\ bconns[a] = 0
                            /\ blistener[a] = "none"
        /\ bquery.called =>
                /\ bquery.first = Len(bpeers) + 1
                /\ bquery.poll = "Ready" /\ bquery.res = Ok /\ bquery.polled = {}
                /\ bquery.check = Phases(brole)

\* A coordinator's builder was given no address, build has returned Ok and
\* the calls on the aggregate have been made.
C39_Witness ==
    /\ mode = "build" /\ brole = "Coord" /\ baddr = <<>>
    /\ bres = Ok /\ bpeers = <<>>
    /\ bquery.called /\ bquery.poll = "Ready" /\ bquery.first = 1
    /\ bquery.check = Phases("Coord")

=============================================================================
